---- MODULE Spec2Model ----
(***************************************************************************)
(* Services of the Skolinspektionen scraper, each under a specification of *)
(* its own that leaves the variables of the others alone:                  *)
(*                                                                         *)
(*   RetrySpec, ConcurrentSpec, FairRetrySpec                              *)
(*       the with_retry wrapper and the CircuitBreaker of                  *)
(*       src/services/retry.py, one breaker shared by a small set of       *)
(*       callers; the breaker's methods can also be called directly        *)
(*   BucketSpec, FairBucketSpec   TokenBucket of src/services/rate_limiter *)
(*   LimiterSpec                  RateLimiter._get_bucket                  *)
(*   DelaySpec                    calculate_delay of src/services/retry.py *)
(*   DeltaSpec                    calculate_items_to_fetch of              *)
(*                                src/services/delta.py                    *)
(*   TrackerSpec                  DeltaTracker and its metadata file       *)
(*   RefresherSpec                DataRefresher.refresh_all of             *)
(*                                src/services/refresher.py, run through   *)
(*                                async_main of src/cli/refresh.py         *)
(*   CacheSpec, LruSpec           the two-tier ContentCache and its memory *)
(*                                tier alone                               *)
(*   FetchSpec                    PublicationScraper.fetch_page of         *)
(*                                src/services/scraper.py: cache, rate     *)
(*                                limiter, retry wrapper, http client      *)
(*   ScrapeSpec                   PublicationScraper.scrape_publications   *)
(*                                over fetch_page and the DeltaTracker     *)
(*                                                                         *)
(* The coroutines run on one asyncio event loop: each runs atomically      *)
(* between two awaits, so an action is the code between two suspension     *)
(* points.  A pure function is applied once to arguments drawn in the      *)
(* initial state.                                                          *)
(***************************************************************************)
EXTENDS Integers, Sequences, FiniteSets, TLC

\* ---------------------------------------------------------------- bounds
MaxTime == 3
MaxConcurrentAttempts == 2
MaxTimeout == 1
MaxFailureThreshold == 2
MaxExtraFailures == 1
MaxCapacity == 2
MaxRate == 2
MaxTokens == 2
MaxBucketTime == 2
MaxInitialDelay == 2
MaxBackoffFactor == 3
MaxMaxDelay == 10
MaxAttempt == 3
MaxCount == 105
MaxStaleJumps == 1
MaxFiles == 2
MaxSize == 3
MaxTtl == 2
MaxCacheTime == 3
MaxFetches == 2
MaxPages == 2

\* ------------------------------------------------------ program constants
\* RetryConfig.max_attempts
DEFAULT_MAX_ATTEMPTS == 3
\* CircuitBreakerConfig.success_threshold
DEFAULT_SUCCESS_THRESHOLD == 2

\* CircuitState
CLOSED == "closed"
OPEN == "open"
HALF_OPEN == "half_open"

CircuitState == {CLOSED, OPEN, HALF_OPEN}

RETRYABLE_STATUS_CODES == {408, 429, 500, 502, 503, 504}

RETRYABLE_EXCEPTIONS ==
    {"TimeoutException", "ConnectError", "ReadError", "WriteError",
     "ConnectionError", "TimeoutError"}

\* Python's None for Optional[float] / Optional[Exception]
None == -1
NoException == "None"

\* `if x:` on an Optional[float]
Truthy(x) == x # None /\ x # 0

\* the coroutines that may call the wrapped function
Callers == {"a", "b"}

\* the coroutines that may call acquire() on the one TokenBucket
Acquirers == {"p", "q"}

\* ------------------------------------------------- what the wrapped op does
\* One invocation of the wrapped coroutine ends in a plain value, an
\* httpx.Response with a status code, or a raised exception.
Value == [kind |-> "value", status |-> 0, exc |-> NoException]
Response(s) == [kind |-> "response", status |-> s, exc |-> NoException]
Raise(e) == [kind |-> "raise", status |-> 0, exc |-> e]

OpStatuses == {200, 503}
OpExceptions == {"TimeoutException", "ValueError"}

OpOutcomes ==
    {Value} \cup {Response(s) : s \in OpStatuses} \cup {Raise(e) : e \in OpExceptions}

VARIABLES
    cb,              \* the CircuitBreaker object (with its config)
    attached,        \* whether with_retry was given circuit_breaker=cb
    callers,         \* the callers that take part in this run
    max_attempts,    \* _config.max_attempts of the decorator
    now,             \* time.monotonic()
    consecutive_failures, \* history: record_failure() calls since the last record_success()
    half_open_successes,  \* history: record_success() calls while HALF_OPEN since it was entered
    pc,              \* per caller: idle, running (awaiting op), sleeping, done
    attempt,         \* per caller: the loop variable of the wrapper
    invocations,     \* per caller: how many times op was invoked in this call
    sleeps,          \* per caller: how many asyncio.sleep(delay) were awaited
    hist,            \* per caller: what each finished invocation of op did
    last_exception,  \* per caller: the wrapper's last_exception
    result,          \* per caller: how the wrapped call ended
    recorded         \* history, per caller: record_failure()/record_success() calls of this call

configVars == <<attached, callers, max_attempts>>
breakerVars == <<cb, consecutive_failures, half_open_successes>>
callVars == <<pc, attempt, invocations, sleeps, hist, last_exception, result, recorded>>
retryVars == <<configVars, now, breakerVars, callVars>>

VARIABLES
    bucket,          \* the TokenBucket object: rate, capacity, tokens, last_update
    lock,            \* bucket._lock: the acquirers at `async with self._lock`, first the holder
    clock,           \* time.monotonic() as the bucket reads it
    apc,             \* per acquirer: idle, queued (at the lock), waiting (in asyncio.sleep), returned
    req,             \* per acquirer: the argument `tokens` of its acquire
    wait_time,       \* per acquirer: the local wait_time, an exact fraction of a tick
    enough,          \* history, per acquirer: were `tokens` available at the call / at the lock
    granted,         \* history: the tokens debited by all acquires so far
    fresh_waits      \* history: the wait of each acquire(1) made in a row on the new bucket

bucketVars == <<bucket, lock, clock, apc, req, wait_time, enough, granted, fresh_waits>>

VARIABLES
    buckets,         \* limiter._buckets: host -> the TokenBucket object kept for it (0: no entry)
    limiter_lock,    \* limiter._lock: the coroutines at `async with self._lock`, first the holder
    lpc,             \* per coroutine: idle, queued, locked (inside _get_bucket), has_bucket
    domain,          \* per coroutine: the argument of limit() / acquire()
    got,             \* per coroutine: the bucket _get_bucket returned to it (0: none yet)
    created,         \* how many TokenBucket objects the limiter has constructed
    first_bucket     \* history: host -> the first TokenBucket object constructed for it

limiterVars == <<buckets, limiter_lock, lpc, domain, got, created, first_bucket>>

VARIABLES
    delay_call,      \* the arguments of one calculate_delay(attempt, config) call
    delay_result     \* what that call returned (None: not called yet)

delayVars == <<delay_call, delay_result>>

VARIABLES
    delta_call,      \* the arguments of one calculate_items_to_fetch(...) call
    delta_result     \* the DeltaResult it returned (None: not called yet)

deltaVars == <<delta_call, delta_result>>

VARIABLES
    metadata,        \* tracker.metadata of the one live DeltaTracker (is_none: Python's None)
    metadata_file,   \* the file at tracker.metadata_path
    today,           \* datetime.now(), in days
    tracker_new,     \* no method of the live tracker was called since its construction
    last_call,       \* the last DeltaTracker method called, its arguments and what it returned
    on_disk          \* history: the UpdateMetadata object the file was last written from

trackerVars == <<metadata, metadata_file, today, tracker_new, last_call, on_disk>>

VARIABLES
    refresh_state,   \* refresher.state of the DataRefresher of the running process
    state_file,      \* the content of refresh_state.json
    sources_arg,     \* the argument `sources` of refresh_all (is_none: Python's None)
    to_refresh,      \* sources_to_refresh
    idx,             \* the position of the loop over sources_to_refresh
    routine,         \* the SourceRefreshResult of the source routine under way
    refresh_result,  \* the RefreshResult of the run
    rpc,             \* idle, loop (between two sources), routine, returned, exited
    exit_code,       \* what async_main returned
    rclock           \* datetime.now(): one tick per run

refresherVars ==
    <<refresh_state, state_file, sources_arg, to_refresh, idx, routine, refresh_result,
      rpc, exit_code, rclock>>

VARIABLES
    memory,          \* the memory tier: its entries, the least recently accessed first
    disk,            \* the disk tier: key -> the entry in the file of that key
    max_size,        \* the capacity of the memory tier
    cache_clock,     \* the time as the cache reads it
    cache_op,        \* the last cache operation, its key, when it ran and what it returned
    written,         \* history: key -> the entry of its last ContentCache.set(), until deleted
    accessed         \* history: the keys got (hit) or set, the least recently accessed first

cacheVars == <<memory, disk, max_size, cache_clock, cache_op, written, accessed>>

VARIABLES
    scraper,         \* the PublicationScraper: is its client open, has it a cache, max_attempts
    content_cache,   \* the ContentCache as fetch_page sees it: url -> content ("None": absent)
    debited,         \* host -> the tokens debited from the bucket of that host
    sent,            \* history: host -> the requests the client has sent to that host
    fpc,             \* fetch_page: idle, limit (at the rate limiter), attempt, sleeping, returned
    fetch,           \* the fetch_page call under way or just over, with its history
    fetches          \* how many fetch_page calls were made

fetchVars == <<scraper, content_cache, debited, sent, fpc, fetch, fetches>>


VARIABLES
    spc,             \* scrape_publications: idle, first (page awaited), loop, page (awaited), done
    scrape           \* the scrape_publications call: its settings, its locals and what it returned

scrapeVars == <<spc, scrape>>


vars == <<retryVars, bucketVars, limiterVars, delayVars, deltaVars, trackerVars, refresherVars, cacheVars, fetchVars, scrapeVars>>

\* what each component leaves alone
notRetryVars ==
    <<bucketVars, limiterVars, delayVars, deltaVars,
      trackerVars, refresherVars, cacheVars, fetchVars, scrapeVars>>
notBucketVars ==
    <<retryVars, limiterVars, delayVars, deltaVars,
      trackerVars, refresherVars, cacheVars, fetchVars, scrapeVars>>
notLimiterVars ==
    <<retryVars, bucketVars, delayVars, deltaVars,
      trackerVars, refresherVars, cacheVars, fetchVars, scrapeVars>>
notDelayVars ==
    <<retryVars, bucketVars, limiterVars, deltaVars,
      trackerVars, refresherVars, cacheVars, fetchVars, scrapeVars>>
notDeltaVars ==
    <<retryVars, bucketVars, limiterVars, delayVars,
      trackerVars, refresherVars, cacheVars, fetchVars, scrapeVars>>
notTrackerVars ==
    <<retryVars, bucketVars, limiterVars, delayVars,
      deltaVars, refresherVars, cacheVars, fetchVars, scrapeVars>>
notRefresherVars ==
    <<retryVars, bucketVars, limiterVars, delayVars,
      deltaVars, trackerVars, cacheVars, fetchVars, scrapeVars>>
notCacheVars ==
    <<retryVars, bucketVars, limiterVars, delayVars,
      deltaVars, trackerVars, refresherVars, fetchVars, scrapeVars>>
notFetchVars ==
    <<retryVars, bucketVars, limiterVars, delayVars,
      deltaVars, trackerVars, refresherVars, cacheVars, scrapeVars>>
notScrapeVars ==
    <<retryVars, bucketVars, limiterVars, delayVars,
      deltaVars, trackerVars, refresherVars, cacheVars, fetchVars>>

\* ------------------------------------------------------------ CircuitBreaker
CircuitBreakerConfig(f, s, t) ==
    [failure_threshold |-> f, success_threshold |-> s, timeout |-> t]

\* CircuitBreaker.__init__
CircuitBreaker(config) ==
    [config |-> config, state |-> CLOSED, failure_count |-> 0, success_count |-> 0,
     last_failure_time |-> None]

\* faulty variant: can_execute that forgets to compare the elapsed time with the timeout
can_execute_NoTimeout(self, t) ==
    IF self.state = OPEN
    THEN [ret |-> TRUE, self |-> [self EXCEPT !.state = HALF_OPEN, !.success_count = 0]]
    ELSE [ret |-> TRUE, self |-> self]

\* CircuitBreaker.can_execute at time t: the value returned and the object afterwards
can_execute(self, t) ==
    IF self.state = CLOSED
    THEN [ret |-> TRUE, self |-> self]
    ELSE IF self.state = OPEN
    THEN IF Truthy(self.last_failure_time)
            /\ t - self.last_failure_time >= self.config.timeout
         THEN [ret |-> TRUE,
               self |-> [self EXCEPT !.state = HALF_OPEN, !.success_count = 0]]
         ELSE [ret |-> FALSE, self |-> self]
    ELSE [ret |-> TRUE, self |-> self]

\* faulty variant: record_success that closes on the first success of the probe phase
record_success_ClosesAtOnce(self) ==
    IF self.state = HALF_OPEN
    THEN [self EXCEPT !.success_count = @ + 1, !.state = CLOSED, !.failure_count = 0]
    ELSE [self EXCEPT !.failure_count = 0]

\* CircuitBreaker.record_success
record_success(self) ==
    IF self.state = HALF_OPEN
    THEN LET counted == [self EXCEPT !.success_count = @ + 1]
         IN  IF counted.success_count >= self.config.success_threshold
             THEN [counted EXCEPT !.state = CLOSED, !.failure_count = 0]
             ELSE counted
    ELSE [self EXCEPT !.failure_count = 0]

\* faulty variant: record_failure that opens one failure late (> for >=)
record_failure_OpensLate(self, t) ==
    LET counted == [self EXCEPT !.failure_count = @ + 1, !.last_failure_time = t]
    IN  IF self.state = HALF_OPEN
        THEN [counted EXCEPT !.state = OPEN]
        ELSE IF counted.failure_count > self.config.failure_threshold
        THEN [counted EXCEPT !.state = OPEN]
        ELSE counted

\* faulty variant: record_failure without the HALF_OPEN branch
record_failure_ThresholdOnly(self, t) ==
    LET counted == [self EXCEPT !.failure_count = @ + 1, !.last_failure_time = t]
    IN  IF counted.failure_count >= self.config.failure_threshold
        THEN [counted EXCEPT !.state = OPEN]
        ELSE counted

\* faulty variant: record_failure that stamps the time only when it opens the
\* breaker
record_failure_StampsOnOpening(self, t) ==
    LET counted == [self EXCEPT !.failure_count = @ + 1]
    IN  IF self.state = HALF_OPEN
        THEN [counted EXCEPT !.state = OPEN, !.last_failure_time = t]
        ELSE IF self.state = CLOSED /\ counted.failure_count >= self.config.failure_threshold
        THEN [counted EXCEPT !.state = OPEN, !.last_failure_time = t]
        ELSE counted

\* CircuitBreaker.record_failure at time t
record_failure(self, t) ==
    LET counted == [self EXCEPT !.failure_count = @ + 1, !.last_failure_time = t]
    IN  IF self.state = HALF_OPEN
        THEN [counted EXCEPT !.state = OPEN]
        ELSE IF counted.failure_count >= self.config.failure_threshold
        THEN [counted EXCEPT !.state = OPEN]
        ELSE counted

\* ------------------------------------------ one call of a breaker method
\* Each applies the method to the shared object and keeps the two history
\* counters; the callers' variables are left to the action that uses it.
CallCanExecute ==
    /\ cb' = can_execute(cb, now).self
    /\ half_open_successes' =
          IF cb.state # HALF_OPEN /\ cb'.state = HALF_OPEN THEN 0 ELSE half_open_successes
    /\ UNCHANGED consecutive_failures

CallRecordSuccess ==
    /\ cb' = record_success(cb)
    /\ consecutive_failures' = 0
    /\ half_open_successes' =
          IF cb.state = HALF_OPEN THEN half_open_successes + 1 ELSE half_open_successes

CallRecordFailure ==
    /\ cb' = record_failure(cb, now)
    /\ consecutive_failures' = consecutive_failures + 1
    /\ UNCHANGED half_open_successes

\* failure_count has no upper limit in the code; the model stops counting here
CanCountFailure == cb.failure_count < cb.config.failure_threshold + MaxExtraFailures

\* -------------------------------------------------------------- with_retry
is_retryable_response(response) == response.status \in RETRYABLE_STATUS_CODES

is_retryable_exception(exc) == exc \in RETRYABLE_EXCEPTIONS

Pending == [kind |-> "pending", value |-> Value, last_exception |-> NoException]
Returned(v) == [kind |-> "returned", value |-> v, last_exception |-> NoException]
Raised(e) == [kind |-> "raised", value |-> Raise(e), last_exception |-> NoException]
CircuitBreakerOpenError ==
    [kind |-> "CircuitBreakerOpenError", value |-> Value, last_exception |-> NoException]
MaxRetriesExceededError(e) ==
    [kind |-> "MaxRetriesExceededError", value |-> Value, last_exception |-> e]

\* the wrapper invokes func(*args, **kwargs) and awaits it
InvokeOp(c) ==
    /\ pc' = [pc EXCEPT ![c] = "running"]
    /\ invocations' = [invocations EXCEPT ![c] = @ + 1]

\* the wrapper awaits asyncio.sleep(calculate_delay(attempt, _config))
BackoffSleep(c) ==
    /\ pc' = [pc EXCEPT ![c] = "sleeping"]
    /\ sleeps' = [sleeps EXCEPT ![c] = @ + 1]
    /\ UNCHANGED result

\* the wrapper returns or raises to its caller
Finish(c, r) ==
    /\ pc' = [pc EXCEPT ![c] = "done"]
    /\ result' = [result EXCEPT ![c] = r]
    /\ UNCHANGED sleeps

\* what one wrapped call has reported to the breaker so far
NothingRecorded == [failures |-> 0, successes |-> 0]

\* wrapper, `if circuit_breaker: circuit_breaker.record_success()`
WrapperRecordSuccess(c) ==
    IF attached
    THEN /\ CallRecordSuccess
         /\ recorded' = [recorded EXCEPT ![c].successes = @ + 1]
    ELSE UNCHANGED <<breakerVars, recorded>>

\* wrapper, `if circuit_breaker: circuit_breaker.record_failure()`
WrapperRecordFailure(c) ==
    IF attached
    THEN /\ CallRecordFailure
         /\ recorded' = [recorded EXCEPT ![c].failures = @ + 1]
    ELSE UNCHANGED <<breakerVars, recorded>>

\* faulty variant: wrapper entry that does not consult the breaker
Call_NoBreakerCheck(c) ==
    /\ pc[c] = "idle"
    /\ InvokeOp(c)
    /\ UNCHANGED <<result, breakerVars>>
    /\ UNCHANGED <<configVars, now, attempt, sleeps, hist, last_exception, recorded>>

\* wrapper, entry: the breaker check, then the first iteration up to `await func`
Call(c) ==
    /\ pc[c] = "idle"
    /\ IF attached
       THEN /\ CallCanExecute
            /\ IF can_execute(cb, now).ret
               THEN InvokeOp(c) /\ UNCHANGED result
               ELSE /\ pc' = [pc EXCEPT ![c] = "done"]
                    /\ result' = [result EXCEPT ![c] = CircuitBreakerOpenError]
                    /\ UNCHANGED invocations
       ELSE InvokeOp(c) /\ UNCHANGED <<result, breakerVars>>
    /\ UNCHANGED <<configVars, now, attempt, sleeps, hist, last_exception, recorded>>

\* wrapper, `result = await func(...)` returned o: a value or an httpx.Response
OnResult(c, o) ==
    IF /\ o.kind = "response"
       /\ is_retryable_response(o)
       /\ attempt[c] < max_attempts - 1
    THEN BackoffSleep(c) /\ UNCHANGED <<breakerVars, recorded, last_exception>>
    ELSE /\ WrapperRecordSuccess(c)
         /\ Finish(c, Returned(o))
         /\ UNCHANGED last_exception

\* faulty variant: retry loop that gives up one attempt early
OnRetryableException_GivesUpEarly(c, e) ==
    /\ last_exception' = [last_exception EXCEPT ![c] = e]
    /\ WrapperRecordFailure(c)
    /\ IF attempt[c] < max_attempts - 2
       THEN BackoffSleep(c)
       ELSE Finish(c, MaxRetriesExceededError(e))

\* faulty variant: retry loop that sleeps after the last attempt too, before raising
OnRetryableException_SleepsAfterLast(c, e) ==
    /\ last_exception' = [last_exception EXCEPT ![c] = e]
    /\ WrapperRecordFailure(c)
    /\ IF attempt[c] < max_attempts - 1
       THEN BackoffSleep(c)
       ELSE /\ pc' = [pc EXCEPT ![c] = "done"]
            /\ result' = [result EXCEPT ![c] = MaxRetriesExceededError(e)]
            /\ sleeps' = [sleeps EXCEPT ![c] = @ + 1]

\* wrapper, `except RETRYABLE_EXCEPTIONS as e`
OnRetryableException(c, e) ==
    /\ last_exception' = [last_exception EXCEPT ![c] = e]
    /\ WrapperRecordFailure(c)
    /\ IF attempt[c] < max_attempts - 1
       THEN BackoffSleep(c)
       ELSE Finish(c, MaxRetriesExceededError(e))

\* faulty variant: every exception is taken for a retryable one
OnOtherException_Retried(c, e) ==
    /\ last_exception' = [last_exception EXCEPT ![c] = e]
    /\ WrapperRecordFailure(c)
    /\ IF attempt[c] < max_attempts - 1
       THEN BackoffSleep(c)
       ELSE Finish(c, MaxRetriesExceededError(e))

\* faulty variant: a non-retryable exception is re-raised without telling the breaker
OnOtherException_Unrecorded(c, e) ==
    /\ Finish(c, Raised(e))
    /\ UNCHANGED <<breakerVars, recorded, last_exception>>

\* wrapper, `except Exception as e`: record the failure and re-raise
OnOtherException(c, e) ==
    /\ WrapperRecordFailure(c)
    /\ Finish(c, Raised(e))
    /\ UNCHANGED last_exception

\* the awaited op of caller c finishes with outcome o and the wrapper resumes
OpCompletes(c, o) ==
    /\ pc[c] = "running"
    /\ (attached /\ o.kind = "raise") => CanCountFailure
    /\ hist' = [hist EXCEPT ![c] = Append(@, o)]
    /\ IF o.kind # "raise"
       THEN OnResult(c, o)
       ELSE IF is_retryable_exception(o.exc)
       THEN OnRetryableException(c, o.exc)
       ELSE OnOtherException(c, o.exc)
    /\ UNCHANGED <<configVars, now, attempt, invocations>>

\* faulty variant: every iteration of the loop asks the breaker first
Wake_ChecksBreaker(c) ==
    /\ pc[c] = "sleeping"
    /\ attempt[c] + 1 < max_attempts
    /\ attempt' = [attempt EXCEPT ![c] = @ + 1]
    /\ IF attached
       THEN /\ CallCanExecute
            /\ IF can_execute(cb, now).ret
               THEN InvokeOp(c) /\ UNCHANGED result
               ELSE /\ pc' = [pc EXCEPT ![c] = "done"]
                    /\ result' = [result EXCEPT ![c] = CircuitBreakerOpenError]
                    /\ UNCHANGED invocations
       ELSE InvokeOp(c) /\ UNCHANGED <<result, breakerVars>>
    /\ UNCHANGED <<configVars, now, sleeps, hist, last_exception, recorded>>

\* the backoff sleep ends: next iteration of `for attempt in range(max_attempts)`
Wake(c) ==
    /\ pc[c] = "sleeping"
    /\ attempt[c] + 1 < max_attempts
    /\ attempt' = [attempt EXCEPT ![c] = @ + 1]
    /\ InvokeOp(c)
    /\ UNCHANGED <<configVars, now, breakerVars, sleeps, hist, last_exception, result, recorded>>

\* the caller has its answer; the same caller may call the wrapped function again
NewCall(c) ==
    /\ pc[c] = "done"
    /\ pc' = [pc EXCEPT ![c] = "idle"]
    /\ attempt' = [attempt EXCEPT ![c] = 0]
    /\ invocations' = [invocations EXCEPT ![c] = 0]
    /\ sleeps' = [sleeps EXCEPT ![c] = 0]
    /\ hist' = [hist EXCEPT ![c] = <<>>]
    /\ last_exception' = [last_exception EXCEPT ![c] = NoException]
    /\ result' = [result EXCEPT ![c] = Pending]
    /\ recorded' = [recorded EXCEPT ![c] = NothingRecorded]
    /\ UNCHANGED <<configVars, now, breakerVars>>

\* ------------------------------------ the breaker's methods called directly
CanExecute ==
    /\ attached
    /\ CallCanExecute
    /\ UNCHANGED <<configVars, now, callVars>>

RecordSuccess ==
    /\ attached
    /\ CallRecordSuccess
    /\ UNCHANGED <<configVars, now, callVars>>

RecordFailure ==
    /\ attached
    /\ CanCountFailure
    /\ CallRecordFailure
    /\ UNCHANGED <<configVars, now, callVars>>

\* time.monotonic() advances
Tick ==
    /\ now < MaxTime
    /\ now' = now + 1
    /\ UNCHANGED <<configVars, breakerVars, callVars>>

\* ------------------------------------------------------------- TokenBucket
\* src/services/rate_limiter.py.  time.monotonic() is read at whole ticks and
\* rate is in tokens per tick; a wait is kept as the exact fraction
\* deficit / rate.  acquire() runs atomically up to `await asyncio.sleep`.
Min(a, b) == IF a < b THEN a ELSE b

Fraction(n, d) == [num |-> n, den |-> d]

\* `wait_time = 0.0`
NoWait == Fraction(0, 1)

\* faulty variant: a bucket that starts empty
TokenBucket_StartsEmpty(rate, capacity, t) ==
    [rate |-> rate, capacity |-> capacity, tokens |-> 0, last_update |-> t]

\* TokenBucket.__init__ at time t
TokenBucket(rate, capacity, t) ==
    [rate |-> rate, capacity |-> capacity, tokens |-> capacity, last_update |-> t]

\* TokenBucket._add_tokens at time t
add_tokens(self, t) ==
    [self EXCEPT !.tokens = Min(self.capacity, @ + (t - self.last_update) * self.rate),
                 !.last_update = t]

\* TokenBucket.available_tokens at time t
available_tokens(self, t) ==
    Min(self.capacity, self.tokens + (t - self.last_update) * self.rate)

\* the lock queue once p has left `async with self._lock`
Released(q, p) == SelectSeq(q, LAMBDA x : x # p)

NotAsked == [call |-> FALSE, lock |-> FALSE]

\* faulty variant: acquire that gives up the lock while it sleeps
AcquireBody_SleepsUnlocked(p, n, held, at_call) ==
    LET refilled == add_tokens(bucket, clock)
    IN  /\ enough' = [enough EXCEPT ![p] =
                        [call |-> at_call, lock |-> available_tokens(bucket, clock) >= n]]
        /\ lock' = Released(held, p)
        /\ IF refilled.tokens < n
           THEN /\ bucket' = refilled
                /\ wait_time' = [wait_time EXCEPT ![p] =
                                    Fraction(n - refilled.tokens, refilled.rate)]
                /\ apc' = [apc EXCEPT ![p] = "waiting"]
                /\ UNCHANGED granted
           ELSE /\ bucket' = [refilled EXCEPT !.tokens = @ - n]
                /\ wait_time' = [wait_time EXCEPT ![p] = NoWait]
                /\ apc' = [apc EXCEPT ![p] = "returned"]
                /\ granted' = granted + n

\* acquire(n) of p from the moment it holds the lock (held: the lock queue, p
\* first) to its sleep or, with enough tokens, to its return
AcquireBody(p, n, held, at_call) ==
    LET refilled == add_tokens(bucket, clock)
    IN  /\ enough' = [enough EXCEPT ![p] =
                        [call |-> at_call, lock |-> available_tokens(bucket, clock) >= n]]
        /\ IF refilled.tokens < n
           THEN /\ bucket' = refilled
                /\ wait_time' = [wait_time EXCEPT ![p] =
                                    Fraction(n - refilled.tokens, refilled.rate)]
                /\ apc' = [apc EXCEPT ![p] = "waiting"]
                /\ lock' = held
                /\ UNCHANGED granted
           ELSE /\ bucket' = [refilled EXCEPT !.tokens = @ - n]
                /\ wait_time' = [wait_time EXCEPT ![p] = NoWait]
                /\ apc' = [apc EXCEPT ![p] = "returned"]
                /\ lock' = Released(held, p)
                /\ granted' = granted + n

\* p calls bucket.acquire(n): it takes the free lock and goes on, or queues
Acquire(p, n) ==
    /\ apc[p] \in {"idle", "returned"}
    /\ clock < MaxBucketTime
    /\ req' = [req EXCEPT ![p] = n]
    /\ IF lock = <<>>
       THEN AcquireBody(p, n, <<p>>, available_tokens(bucket, clock) >= n)
       ELSE /\ lock' = Append(lock, p)
            /\ apc' = [apc EXCEPT ![p] = "queued"]
            /\ enough' = [enough EXCEPT ![p] =
                            [call |-> available_tokens(bucket, clock) >= n, lock |-> FALSE]]
            /\ wait_time' = [wait_time EXCEPT ![p] = NoWait]
            /\ UNCHANGED <<bucket, granted>>
    /\ fresh_waits' =
          IF n = 1 /\ lock = <<>> /\ clock = bucket.last_update /\ granted = Len(fresh_waits)
          THEN Append(fresh_waits, wait_time'[p])
          ELSE fresh_waits
    /\ UNCHANGED <<clock, notBucketVars>>

\* the lock is handed to the first acquirer in the queue
Enter(p) ==
    /\ apc[p] = "queued"
    /\ Head(lock) = p
    /\ AcquireBody(p, req[p], lock, enough[p].call)
    /\ UNCHANGED <<clock, req, fresh_waits, notBucketVars>>

\* faulty variant: acquire that returns without giving the lock back
WakeUp_KeepsLock(p) ==
    /\ apc[p] = "waiting"
    /\ (clock - bucket.last_update) * wait_time[p].den >= wait_time[p].num
    /\ bucket' = [add_tokens(bucket, clock) EXCEPT !.tokens = @ - req[p]]
    /\ granted' = granted + req[p]
    /\ apc' = [apc EXCEPT ![p] = "returned"]
    /\ UNCHANGED <<lock, clock, req, wait_time, enough, fresh_waits, notBucketVars>>

\* asyncio.sleep(wait_time) is over (it may oversleep): refill, debit, return
WakeUp(p) ==
    /\ apc[p] = "waiting"
    /\ (clock - bucket.last_update) * wait_time[p].den >= wait_time[p].num
    /\ bucket' = [add_tokens(bucket, clock) EXCEPT !.tokens = @ - req[p]]
    /\ granted' = granted + req[p]
    /\ apc' = [apc EXCEPT ![p] = "returned"]
    /\ lock' = Released(lock, p)
    /\ UNCHANGED <<clock, req, wait_time, enough, fresh_waits, notBucketVars>>

\* a sleep that is not over yet
StillAsleep(p) ==
    /\ apc[p] = "waiting"
    /\ (clock - bucket.last_update) * wait_time[p].den < wait_time[p].num

\* time.monotonic() advances; past MaxBucketTime only to end the sleeps under way
BucketTick ==
    /\ clock < MaxBucketTime \/ \E p \in Acquirers : StillAsleep(p)
    /\ clock' = clock + 1
    /\ UNCHANGED <<bucket, lock, apc, req, wait_time, enough, granted, fresh_waits, notBucketVars>>

\* the state after `TokenBucket(rate, capacity)` at time 0
BucketConstructed(rates, capacities) ==
    /\ \E r \in rates, c \in capacities : bucket = TokenBucket(r, c, 0)
    /\ lock = <<>>
    /\ clock = 0
    /\ apc = [p \in Acquirers |-> "idle"]
    /\ req = [p \in Acquirers |-> 0]
    /\ wait_time = [p \in Acquirers |-> NoWait]
    /\ enough = [p \in Acquirers |-> NotAsked]
    /\ granted = 0
    /\ fresh_waits = <<>>

\* ---------------------------------------------------------- calculate_delay
\* The arguments are whole seconds.  The result is kept in quarter seconds,
\* the grain in which the model draws random.uniform(-jitter_range, jitter_range).
RetryConfig(initial_delay, backoff_factor, max_delay, jitter) ==
    [initial_delay |-> initial_delay, backoff_factor |-> backoff_factor,
     max_delay |-> max_delay, jitter |-> jitter]

Max(a, b) == IF a > b THEN a ELSE b

\* x ** n
RECURSIVE Pow(_, _)
Pow(x, n) == IF n = 0 THEN 1 ELSE x * Pow(x, n - 1)

\* `delay * 0.25` is one quarter second for each second of delay
JITTER_QUARTERS == 4
Quarters(seconds) == JITTER_QUARTERS * seconds

\* what random.uniform(-jitter_range, jitter_range) can return, in quarter seconds
JitterDraws(att, config) ==
    LET delay == Min(config.initial_delay * Pow(config.backoff_factor, att),
                     config.max_delay)
    IN  IF config.jitter THEN (0 - delay) .. delay ELSE {0}

\* faulty variant: no cap at max_delay
calculate_delay_Uncapped(att, config, u) ==
    LET delay == config.initial_delay * Pow(config.backoff_factor, att)
    IN  Max(0, Quarters(delay) + IF config.jitter THEN u ELSE 0)

\* calculate_delay(attempt, config), with u what random.uniform returned
calculate_delay(att, config, u) ==
    LET delay == Min(config.initial_delay * Pow(config.backoff_factor, att),
                     config.max_delay)
    IN  Max(0, Quarters(delay) + IF config.jitter THEN u ELSE 0)

\* one call of calculate_delay with the arguments drawn at the start
CalculateDelay ==
    /\ delay_result = None
    /\ \E u \in JitterDraws(delay_call.attempt, delay_call.config) :
          delay_result' = calculate_delay(delay_call.attempt, delay_call.config, u)
    /\ UNCHANGED <<delay_call, notDelayVars>>

DelayCall(att, config) == [attempt |-> att, config |-> config]

\* no calculate_delay call is under way
DelayUnused ==
    /\ delay_call = DelayCall(0, RetryConfig(1, 2, 60, TRUE))
    /\ delay_result = None

\* ------------------------------------------------- calculate_items_to_fetch
\* src/services/delta.py
DEFAULT_BUFFER == 10
DEFAULT_DAILY_FACTOR == 2
\* `if days_since_update > 30`
STALE_DAYS == 30

DeltaResult(items_to_fetch, reason, is_full_scrape, new_items_estimate, days_since_update) ==
    [items_to_fetch |-> items_to_fetch, reason |-> reason,
     is_full_scrape |-> is_full_scrape, new_items_estimate |-> new_items_estimate,
     days_since_update |-> days_since_update]

\* the reasons; the two formatted ones without their numbers, which the
\* other fields of the result carry
REMOVED == "items removed from source"
STALE == "stale data (N days)"
INITIAL == "initial scrape"
MOSTLY == "incremental would fetch >70%"
INCREMENTAL == "+N new, Nd stale"

Abs(x) == IF x < 0 THEN 0 - x ELSE x

\* The float 0.7 is the double 6305039478318694 / 2^53.  Its 53-bit
\* numerator is held in three limbs of 20 bits, lowest first, so that every
\* product below stays under 2^31 for a count under 1024.
LIMB == 1048576
SEVENTY_PERCENT_LO == 419430
SEVENTY_PERCENT_MID == 419430
SEVENTY_PERCENT_HI == 5734

RECURSIVE BitLength(_)
BitLength(x) == IF x = 0 THEN 0 ELSE 1 + BitLength(x \div 2)

\* `online_count * 0.7` as the double multiplication returns it: the exact
\* product rounded to 53 significant bits, ties to even, in limbs of the
\* fixed-point number with 53 fraction bits
times_seventy_percent(n) ==
    LET t0 == n * SEVENTY_PERCENT_LO
        p0 == t0 % LIMB
        t1 == n * SEVENTY_PERCENT_MID + t0 \div LIMB
        p1 == t1 % LIMB
        p2 == n * SEVENTY_PERCENT_HI + t1 \div LIMB
        dropped == Max(0, 40 + BitLength(p2) - 53)
        grain == Pow(2, dropped)
        low == p0 % grain
        kept == p0 \div grain
        up == 2 * low > grain \/ (2 * low = grain /\ kept % 2 = 1)
        r0 == p0 - low + IF up THEN grain ELSE 0
        r1 == p1 + r0 \div LIMB
        r2 == p2 + r1 \div LIMB
    IN  [hi |-> r2, mid |-> r1 % LIMB, lo |-> r0 % LIMB]

\* `k > x` for an int k and a double x in that form: k is k * 2^13 units of
\* the highest limb
int_gt_float(k, x) == k * 8192 > x.hi

\* faulty variant: the staleness rule is tried before the removal rule
calculate_items_to_fetch_StaleFirst(online_count, saved_count, days_since_update, buffer, daily_factor) ==
    LET count_diff == online_count - saved_count
        items_to_fetch == Min(Abs(count_diff) + buffer + daily_factor * days_since_update,
                              online_count)
    IN  IF days_since_update > STALE_DAYS
        THEN DeltaResult(online_count, STALE, TRUE, count_diff, days_since_update)
        ELSE IF count_diff < 0
        THEN DeltaResult(online_count, REMOVED, TRUE, 0, days_since_update)
        ELSE IF saved_count = 0
        THEN DeltaResult(online_count, INITIAL, TRUE, online_count, days_since_update)
        ELSE IF int_gt_float(items_to_fetch, times_seventy_percent(online_count))
        THEN DeltaResult(online_count, MOSTLY, TRUE, count_diff, days_since_update)
        ELSE DeltaResult(items_to_fetch, INCREMENTAL, FALSE, count_diff, days_since_update)

\* faulty variant: without the escalation of a fetch of more than 70%
calculate_items_to_fetch_NeverEscalates(online_count, saved_count, days_since_update, buffer, daily_factor) ==
    LET count_diff == online_count - saved_count
        items_to_fetch == Min(Abs(count_diff) + buffer + daily_factor * days_since_update,
                              online_count)
    IN  IF count_diff < 0
        THEN DeltaResult(online_count, REMOVED, TRUE, 0, days_since_update)
        ELSE IF days_since_update > STALE_DAYS
        THEN DeltaResult(online_count, STALE, TRUE, count_diff, days_since_update)
        ELSE IF saved_count = 0
        THEN DeltaResult(online_count, INITIAL, TRUE, online_count, days_since_update)
        ELSE DeltaResult(items_to_fetch, INCREMENTAL, FALSE, count_diff, days_since_update)

\* calculate_items_to_fetch
calculate_items_to_fetch(online_count, saved_count, days_since_update, buffer, daily_factor) ==
    LET count_diff == online_count - saved_count
        items_to_fetch == Min(Abs(count_diff) + buffer + daily_factor * days_since_update,
                              online_count)
    IN  IF count_diff < 0
        THEN DeltaResult(online_count, REMOVED, TRUE, 0, days_since_update)
        ELSE IF days_since_update > STALE_DAYS
        THEN DeltaResult(online_count, STALE, TRUE, count_diff, days_since_update)
        ELSE IF saved_count = 0
        THEN DeltaResult(online_count, INITIAL, TRUE, online_count, days_since_update)
        ELSE IF int_gt_float(items_to_fetch, times_seventy_percent(online_count))
        THEN DeltaResult(online_count, MOSTLY, TRUE, count_diff, days_since_update)
        ELSE DeltaResult(items_to_fetch, INCREMENTAL, FALSE, count_diff, days_since_update)

DeltaCall(online_count, saved_count, days_since_update, buffer, daily_factor) ==
    [online_count |-> online_count, saved_count |-> saved_count,
     days_since_update |-> days_since_update, buffer |-> buffer,
     daily_factor |-> daily_factor]

\* no DeltaResult yet
NotCalled == DeltaResult(0, "", FALSE, 0, 0)

\* one call of calculate_items_to_fetch with the arguments drawn at the start
CalculateItemsToFetch ==
    /\ delta_result = NotCalled
    /\ delta_result' = calculate_items_to_fetch(
                           delta_call.online_count, delta_call.saved_count,
                           delta_call.days_since_update, delta_call.buffer,
                           delta_call.daily_factor)
    /\ UNCHANGED <<delta_call, notDeltaVars>>

\* no calculate_items_to_fetch call is under way
DeltaUnused ==
    /\ delta_call = DeltaCall(0, 0, 0, DEFAULT_BUFFER, DEFAULT_DAILY_FACTOR)
    /\ delta_result = NotCalled

\* the days_since_update and buffer values drawn: fresh, the days of the
\* unit tests, both sides of the staleness limit; no buffer and the default
DaysDrawn == {0, 2, 24, STALE_DAYS, STALE_DAYS + 1}
BuffersDrawn == {0, DEFAULT_BUFFER}

\* a bucket nobody uses
BucketUnused == BucketConstructed({1}, {1})

\* -------------------------------------------------------------- RateLimiter
\* limit(domain) and acquire(domain) both start with `await self._get_bucket(domain)`;
\* what they do with the bucket afterwards is TokenBucket.acquire, above.  A
\* TokenBucket object is known by its serial number of construction.  A
\* coroutine may be suspended at `async with self._lock`, so taking the lock
\* and the body under it are separate steps.
Hosts == {"skolinspektionen.se", "skolverket.se"}

NoBucket == 0
NoDomain == ""

\* faulty variant: _get_bucket without the `domain not in self._buckets` test
GetBucketBody_AlwaysCreates(a) ==
    /\ lpc[a] = "locked"
    /\ created' = created + 1
    /\ buckets' = [buckets EXCEPT ![domain[a]] = created + 1]
    /\ first_bucket' = IF first_bucket[domain[a]] = NoBucket
                       THEN [first_bucket EXCEPT ![domain[a]] = created + 1]
                       ELSE first_bucket
    /\ got' = [got EXCEPT ![a] = buckets'[domain[a]]]
    /\ limiter_lock' = Released(limiter_lock, a)
    /\ lpc' = [lpc EXCEPT ![a] = "has_bucket"]
    /\ UNCHANGED <<domain, notLimiterVars>>

\* RateLimiter._get_bucket under the lock: create on first use, return, unlock
GetBucketBody(a) ==
    /\ lpc[a] = "locked"
    /\ IF buckets[domain[a]] = NoBucket
       THEN /\ created' = created + 1
            /\ buckets' = [buckets EXCEPT ![domain[a]] = created + 1]
            /\ first_bucket' = IF first_bucket[domain[a]] = NoBucket
                               THEN [first_bucket EXCEPT ![domain[a]] = created + 1]
                               ELSE first_bucket
       ELSE UNCHANGED <<buckets, created, first_bucket>>
    /\ got' = [got EXCEPT ![a] = buckets'[domain[a]]]
    /\ limiter_lock' = Released(limiter_lock, a)
    /\ lpc' = [lpc EXCEPT ![a] = "has_bucket"]
    /\ UNCHANGED <<domain, notLimiterVars>>

\* a calls limiter.limit(h) or limiter.acquire(h) and arrives at the lock
GetBucket(a, h) ==
    /\ lpc[a] = "idle"
    /\ domain' = [domain EXCEPT ![a] = h]
    /\ got' = [got EXCEPT ![a] = NoBucket]
    /\ limiter_lock' = Append(limiter_lock, a)
    /\ lpc' = [lpc EXCEPT ![a] = IF limiter_lock = <<>> THEN "locked" ELSE "queued"]
    /\ UNCHANGED <<buckets, created, first_bucket, notLimiterVars>>

\* the limiter lock is handed to the first coroutine in the queue
TakeLimiterLock(a) ==
    /\ lpc[a] = "queued"
    /\ Head(limiter_lock) = a
    /\ lpc' = [lpc EXCEPT ![a] = "locked"]
    /\ UNCHANGED <<buckets, limiter_lock, domain, got, created, first_bucket, notLimiterVars>>

\* a goes on with the bucket it got; afterwards it may come back
UseBucket(a) ==
    /\ lpc[a] = "has_bucket"
    /\ lpc' = [lpc EXCEPT ![a] = "idle"]
    /\ UNCHANGED <<buckets, limiter_lock, domain, got, created, first_bucket, notLimiterVars>>

\* the state after `RateLimiter()`
LimiterConstructed ==
    /\ buckets = [h \in Hosts |-> NoBucket]
    /\ limiter_lock = <<>>
    /\ lpc = [a \in Acquirers |-> "idle"]
    /\ domain = [a \in Acquirers |-> NoDomain]
    /\ got = [a \in Acquirers |-> NoBucket]
    /\ created = 0
    /\ first_bucket = [h \in Hosts |-> NoBucket]

\* ------------------------------------------------------------- DeltaTracker
\* src/services/delta.py.  One DeltaTracker object is alive at a time; a new
\* one for the same path replaces it.
ItemTypes == {"publications", "press_releases"}

\* the counts drawn for record_update and for the online count
CountsDrawn == {0, 40, 50}

\* a dict[str, int] over ItemTypes: None marks a key the dict does not hold
EmptyDict == [t \in ItemTypes |-> None]

\* dict.get(key, default)
DictGet(d, key, default) == IF d[key] = None THEN default ELSE d[key]

\* dict[key] = value
DictSet(d, key, value) == [d EXCEPT ![key] = value]

UpdateMetadata(latest_updated, items) ==
    [is_none |-> FALSE, latest_updated |-> latest_updated, items |-> items,
     last_scraped_urls |-> <<>>, version |-> "1.0"]

\* Optional[UpdateMetadata]: None
NoMetadata ==
    [is_none |-> TRUE, latest_updated |-> 0, items |-> EmptyDict,
     last_scraped_urls |-> <<>>, version |-> ""]

\* datetime.isoformat() / datetime.fromisoformat() of a day number under
\* 100: its two decimal digits
isoformat(dt) == <<dt \div 10, dt % 10>>
fromisoformat(s) == 10 * s[1] + s[2]

\* UpdateMetadata.to_dict
to_dict(self) ==
    [version |-> self.version, latest_updated |-> isoformat(self.latest_updated),
     items |-> self.items, last_scraped_urls |-> self.last_scraped_urls]

\* UpdateMetadata.from_dict
from_dict(data) ==
    [is_none |-> FALSE, latest_updated |-> fromisoformat(data.latest_updated),
     items |-> data.items, last_scraped_urls |-> data.last_scraped_urls,
     version |-> data.version]

\* the file at metadata_path: absent, not the JSON of a metadata dict
\* (json.JSONDecodeError, KeyError or ValueError on reading it), or the
\* JSON text of a dict
JsonFile(data) == [exists |-> TRUE, valid |-> TRUE, data |-> data]
MissingFile == [exists |-> FALSE, valid |-> FALSE, data |-> to_dict(NoMetadata)]
InvalidFile == [exists |-> TRUE, valid |-> FALSE, data |-> to_dict(NoMetadata)]

\* load_update_metadata
load_update_metadata(file) ==
    IF ~file.exists THEN NoMetadata
    ELSE IF ~file.valid THEN NoMetadata
    ELSE from_dict(file.data)

\* save_update_metadata: the file it leaves
save_update_metadata(self) == JsonFile(to_dict(self))

\* days_since, with datetime.now() = day
days_since(dt, day) == Max(0, day - dt)

\* a method call of the tracker and what it returned
TrackerCall(op, item_type, count, returned, was_new) ==
    [op |-> op, item_type |-> item_type, count |-> count, returned |-> returned,
     was_new |-> was_new]

NoTrackerCall == TrackerCall("", "", 0, NotCalled, FALSE)

\* faulty variant: a source without a saved count is taken to be up to date
calculate_delta_AssumesCurrent(self, item_type, online_count, day) ==
    IF self.is_none
    THEN DeltaResult(online_count, "no previous metadata", TRUE, online_count, 0)
    ELSE calculate_items_to_fetch(online_count,
                                  DictGet(self.items, item_type, online_count),
                                  days_since(self.latest_updated, day),
                                  DEFAULT_BUFFER, DEFAULT_DAILY_FACTOR)

\* DeltaTracker.calculate_delta, with the default buffer and daily_factor
calculate_delta(self, item_type, online_count, day) ==
    IF self.is_none
    THEN DeltaResult(online_count, "no previous metadata", TRUE, online_count, 0)
    ELSE calculate_items_to_fetch(online_count,
                                  DictGet(self.items, item_type, 0),
                                  days_since(self.latest_updated, day),
                                  DEFAULT_BUFFER, DEFAULT_DAILY_FACTOR)

\* faulty variant: record_update starts a new items dict
record_update_ClearsOthers(self, item_type, count, day) ==
    [UpdateMetadata(day, EmptyDict) EXCEPT !.items = DictSet(EmptyDict, item_type, count)]

\* DeltaTracker.record_update on day: the metadata it leaves
record_update(self, item_type, count, day) ==
    LET held == IF self.is_none THEN UpdateMetadata(day, EmptyDict) ELSE self
    IN  [held EXCEPT !.items = DictSet(held.items, item_type, count),
                     !.latest_updated = day]

\* DeltaTracker(path)
NewTracker ==
    /\ metadata' = NoMetadata
    /\ tracker_new' = TRUE
    /\ last_call' = TrackerCall("__init__", "", 0, NotCalled, FALSE)
    /\ UNCHANGED <<metadata_file, today, on_disk, notTrackerVars>>

\* DeltaTracker.load
Load ==
    /\ metadata' = load_update_metadata(metadata_file)
    /\ tracker_new' = FALSE
    /\ last_call' = TrackerCall("load", "", 0, NotCalled, tracker_new)
    /\ UNCHANGED <<metadata_file, today, on_disk, notTrackerVars>>

\* DeltaTracker.save
Save ==
    /\ IF ~metadata.is_none
       THEN /\ metadata_file' = save_update_metadata(metadata)
            /\ on_disk' = metadata
       ELSE UNCHANGED <<metadata_file, on_disk>>
    /\ tracker_new' = FALSE
    /\ last_call' = TrackerCall("save", "", 0, NotCalled, tracker_new)
    /\ UNCHANGED <<metadata, today, notTrackerVars>>

\* faulty variant: record_update writes the file as well
RecordUpdate_Persists(item_type, count) ==
    LET self == IF metadata.is_none THEN UpdateMetadata(today, EmptyDict) ELSE metadata
        updated == [self EXCEPT !.items = DictSet(self.items, item_type, count),
                                !.latest_updated = today]
    IN  /\ metadata' = updated
        /\ metadata_file' = save_update_metadata(updated)
        /\ on_disk' = updated
        /\ tracker_new' = FALSE
        /\ last_call' = TrackerCall("record_update", item_type, count, NotCalled, tracker_new)
        /\ UNCHANGED <<today, notTrackerVars>>

\* DeltaTracker.record_update
RecordUpdate(item_type, count) ==
    /\ metadata' = record_update(metadata, item_type, count, today)
    /\ tracker_new' = FALSE
    /\ last_call' = TrackerCall("record_update", item_type, count, NotCalled, tracker_new)
    /\ UNCHANGED <<metadata_file, today, on_disk, notTrackerVars>>

\* DeltaTracker.calculate_delta
CalculateDelta(item_type, online_count) ==
    /\ last_call' = TrackerCall("calculate_delta", item_type, online_count,
                                calculate_delta(metadata, item_type, online_count, today),
                                tracker_new)
    /\ tracker_new' = FALSE
    /\ UNCHANGED <<metadata, metadata_file, today, on_disk, notTrackerVars>>

\* the days pass, more than STALE_DAYS of them at a time
TrackerDay ==
    /\ today < MaxStaleJumps * (STALE_DAYS + 1)
    /\ today' = today + STALE_DAYS + 1
    /\ UNCHANGED <<metadata, metadata_file, tracker_new, last_call, on_disk, notTrackerVars>>

\* a tracker nobody uses, without a file
TrackerUnused ==
    /\ metadata = NoMetadata
    /\ metadata_file = MissingFile
    /\ today = 0
    /\ tracker_new = TRUE
    /\ last_call = NoTrackerCall
    /\ on_disk = NoMetadata

\* ------------------------------------------------------------ DataRefresher
\* src/services/refresher.py, run as async_main of src/cli/refresh.py does:
\* a run is a process of its own that constructs a DataRefresher from the
\* state file earlier runs left and calls refresh_all once.  A run is followed one iteration
\* of the loop over its sources at a time.

\* RefreshStatus
PENDING == "pending"
RUNNING == "running"
SUCCESS == "success"
FAILED == "failed"
SKIPPED == "skipped"

\* `refresh_history[-100:]`
HISTORY_LIMIT == 100

all_sources == <<"publications", "skolenkaten", "tillstand", "tillsyn", "kolada">>

\* the elements of a sequence
Elements(seq) == {seq[i] : i \in 1..Len(seq)}

\* the keys of refresh_methods
refresh_methods == Elements(all_sources)

\* a name that is no key of refresh_methods
UNKNOWN_SOURCE == "skolverket"

\* the routines that hand the downloaded files to the parser one by one,
\* each in a try block of its own
ParsesPerFile == {"skolenkaten", "tillstand"}

\* the routine that hands all its files to load_all_tillsyn_statistik
ParsesAllAtOnce == {"tillsyn"}

\* Optional[list[str]]
SourcesNone == [is_none |-> TRUE, list |-> <<>>]
SourcesList(list) == [is_none |-> FALSE, list |-> list]

\* the `sources` arguments drawn
SourcesDrawn ==
    {SourcesNone, SourcesList(<<>>),
     SourcesList(<<"skolenkaten", "tillsyn", "kolada">>),
     SourcesList(<<"tillstand", UNKNOWN_SOURCE>>)}

\* the messages in SourceRefreshResult.errors: f"Parse error {path.name}: {e}"
\* and str(e)
PARSE_ERROR == "Parse error"
EXCEPTION_MESSAGE == "str(e)"

\* SourceRefreshResult, with as history the files handed to the parser and
\* those on which it raised
SourceRefreshResult(source, status) ==
    [source |-> source, status |-> status, items_fetched |-> 0, items_parsed |-> 0,
     errors |-> <<>>, completed_at |-> None, parser_calls |-> 0, parse_failures |-> 0]

\* no SourceRefreshResult: a key result.sources does not hold, no routine under way
NoSourceResult == SourceRefreshResult("", "")

\* RefreshResult; keys is the insertion order of the dict `sources`
RefreshResult(started_at) ==
    [started_at |-> started_at, completed_at |-> None,
     sources |-> [s \in refresh_methods |-> NoSourceResult], keys |-> <<>>,
     total_items |-> 0, total_errors |-> 0, success |-> FALSE]

\* no entry in source_states
NoSourceState == [last_refresh |-> None, status |-> "", items |-> 0]

\* RefreshState()
RefreshState ==
    [last_full_refresh |-> None, last_incremental_refresh |-> None,
     source_states |-> [s \in refresh_methods |-> NoSourceState],
     refresh_history |-> <<>>]

\* DataRefresher._load_state
load_state(file) == IF file.exists THEN file.data ELSE RefreshState

\* DataRefresher._save_state: the file it leaves
save_state(self) == [exists |-> TRUE, data |-> self]

\* the operation has not run
NotRun == [exists |-> FALSE, data |-> RefreshState]

\* faulty variant: the requested sources are refreshed last first
sources_to_refresh_Reversed(arg) ==
    LET list == IF arg.is_none \/ arg.list = <<>> THEN all_sources ELSE arg.list
    IN  [i \in 1..Len(list) |-> list[Len(list) + 1 - i]]

\* `sources or all_sources`
sources_to_refresh(arg) ==
    IF arg.is_none \/ arg.list = <<>> THEN all_sources ELSE arg.list

\* faulty variant: a run counts as failed only when no source succeeded
overall_success_AnySucceeded(sources) ==
    \/ \A s \in refresh_methods : sources[s] = NoSourceResult
    \/ \E s \in refresh_methods : sources[s].status = SUCCESS

\* `len(failed_sources) == 0`
overall_success(sources) ==
    {s \in refresh_methods : sources[s] # NoSourceResult /\ sources[s].status = FAILED} = {}

\* faulty variant: an empty list counts as a full refresh, as it runs all sources
sources_is_None_OrEmpty(arg) == arg.is_none \/ arg.list = <<>>

\* `if sources is None`
sources_is_None(arg) == arg.is_none

HistoryEntry(timestamp, sources, success, duration) ==
    [timestamp |-> timestamp, sources |-> sources, success |-> success,
     duration |-> duration]

\* faulty variant: the first HISTORY_LIMIT entries are kept
append_history_KeepsOldest(history, entry) ==
    SubSeq(Append(history, entry), 1, Min(Len(history) + 1, HISTORY_LIMIT))

\* refresh_history.append(entry); refresh_history[-100:]
append_history(history, entry) ==
    LET appended == Append(history, entry)
    IN  SubSeq(appended, Max(1, Len(appended) - HISTORY_LIMIT + 1), Len(appended))

\* the state refresh_all leaves after a run that returned result at time t
update_state(self, arg, returned, t) ==
    [last_full_refresh |->
         IF sources_is_None(arg) THEN t ELSE self.last_full_refresh,
     last_incremental_refresh |->
         IF sources_is_None(arg) THEN self.last_incremental_refresh ELSE t,
     source_states |->
         [s \in refresh_methods |->
             IF returned.sources[s] # NoSourceResult
             THEN [last_refresh |-> returned.sources[s].completed_at,
                   status |-> returned.sources[s].status,
                   items |-> returned.sources[s].items_parsed]
             ELSE self.source_states[s]],
     refresh_history |->
         append_history(self.refresh_history,
                        HistoryEntry(returned.completed_at, returned.keys,
                                     returned.success,
                                     returned.completed_at - returned.started_at))]

\* async_main / run_refresh: DataRefresher() and refresh_all(sources=arg) up
\* to its loop
AsyncMain(arg) ==
    /\ rpc = "idle"
    /\ rclock' = rclock + 1
    /\ refresh_state' = load_state(state_file)
    /\ sources_arg' = arg
    /\ to_refresh' = sources_to_refresh(arg)
    /\ refresh_result' = RefreshResult(rclock')
    /\ idx' = 1
    /\ routine' = NoSourceResult
    /\ exit_code' = None
    /\ rpc' = "loop"
    /\ UNCHANGED <<state_file, notRefresherVars>>

\* the loop takes the next source: its routine runs up to its fetch, or the
\* name is no key of refresh_methods and is passed over
StartSource ==
    /\ rpc = "loop"
    /\ idx <= Len(to_refresh)
    /\ IF to_refresh[idx] \in refresh_methods
       THEN /\ routine' = SourceRefreshResult(to_refresh[idx], RUNNING)
            /\ rpc' = "routine"
            /\ idx' = idx
       ELSE /\ idx' = idx + 1
            /\ UNCHANGED <<routine, rpc>>
    /\ UNCHANGED <<refresh_state, state_file, sources_arg, to_refresh, refresh_result,
                   exit_code, rclock, notRefresherVars>>

\* the routine returns r and the loop body books it
Returns(r) ==
    LET done == [r EXCEPT !.completed_at = rclock]
    IN  /\ refresh_result' =
               [refresh_result EXCEPT
                   !.sources[r.source] = done,
                   !.keys = IF r.source \in Elements(@) THEN @ ELSE Append(@, r.source),
                   !.total_items = @ + r.items_parsed,
                   !.total_errors = @ + Len(r.errors)]
        /\ routine' = NoSourceResult
        /\ idx' = idx + 1
        /\ rpc' = "loop"
        /\ UNCHANGED <<refresh_state, state_file, sources_arg, to_refresh, exit_code,
                       rclock, notRefresherVars>>

\* faulty variant: the exception leaves the routine and refresh_all
RoutineRaises_Propagates ==
    /\ rpc = "routine"
    /\ rpc' = "returned"
    /\ routine' = [routine EXCEPT !.status = FAILED]
    /\ UNCHANGED <<refresh_state, state_file, sources_arg, to_refresh, idx,
                   refresh_result, exit_code, rclock, notRefresherVars>>

\* the fetch of the routine raises: `except Exception as e` of the routine
RoutineRaises ==
    /\ rpc = "routine"
    /\ Returns([routine EXCEPT !.status = FAILED,
                               !.errors = Append(@, EXCEPTION_MESSAGE)])

\* the files on which the parser raises, in order
Raising(parses) == {i \in 1..Len(parses) : parses[i]}

\* what the routine of r.source returns when its fetch brought Len(parses)
\* files, each of which holds one record unless the parser raises on it
Parsed(r, parses) ==
    LET n == Len(parses)
        k == Cardinality(Raising(parses))
    IN  IF r.source \in ParsesPerFile
        THEN [r EXCEPT !.items_fetched = n, !.items_parsed = n - k,
                       !.errors = [i \in 1..k |-> PARSE_ERROR],
                       !.parser_calls = n, !.parse_failures = k, !.status = SUCCESS]
        ELSE IF k = 0
        THEN [r EXCEPT !.items_fetched = n, !.items_parsed = n,
                       !.parser_calls = n, !.status = SUCCESS]
        ELSE [r EXCEPT !.items_fetched = n,
                       !.errors = <<EXCEPTION_MESSAGE>>,
                       !.parser_calls = CHOOSE i \in Raising(parses) :
                                            \A j \in Raising(parses) : i <= j,
                       !.parse_failures = 1, !.status = FAILED]

\* the fetch of the routine succeeds and what it brought is parsed; the
\* sources without files (the publication index, the Kolada statistics)
\* count as one item that parses
RoutineCompletes(parses) ==
    /\ rpc = "routine"
    /\ routine.source \notin ParsesPerFile \cup ParsesAllAtOnce => parses = <<FALSE>>
    /\ Returns(Parsed(routine, parses))

\* refresh_all after its loop: the result, the state, the history, the file
Finalize ==
    /\ rpc = "loop"
    /\ idx > Len(to_refresh)
    /\ refresh_result' =
           [refresh_result EXCEPT !.completed_at = rclock,
                                  !.success = overall_success(refresh_result.sources)]
    /\ refresh_state' = update_state(refresh_state, sources_arg, refresh_result', rclock)
    /\ state_file' = save_state(refresh_state')
    /\ rpc' = "returned"
    /\ UNCHANGED <<sources_arg, to_refresh, idx, routine, exit_code, rclock,
                   notRefresherVars>>

\* async_main returns: `return 0 if result.success else 1`
Exit ==
    /\ rpc = "returned"
    /\ exit_code' = IF refresh_result.success THEN 0 ELSE 1
    /\ rpc' = "exited"
    /\ UNCHANGED <<refresh_state, state_file, sources_arg, to_refresh, idx, routine,
                   refresh_result, rclock, notRefresherVars>>

\* no refresher process has run and there is no state file
RefresherIdle ==
    /\ refresh_state = RefreshState
    /\ sources_arg = SourcesNone
    /\ to_refresh = <<>>
    /\ idx = 0
    /\ routine = NoSourceResult
    /\ refresh_result = RefreshResult(0)
    /\ rpc = "idle"
    /\ exit_code = None

RefresherUnused ==
    /\ RefresherIdle
    /\ state_file = NotRun
    /\ rclock = 0

\* ------------------------------------------------------------- ContentCache
\* src/services/cache.py is not part of the sources at hand; the two tiers
\* are modelled from the specification of the cache (memory tier in front of
\* a disk tier, lazy expiry, least-recently-accessed eviction) and from
\* tests/unit/test_cache.py.  Every operation runs serialized.

\* the keys used with the memory tier alone, and with the two tiers
LruKeys == {"A", "B", "C", "D"}
CacheKeys == {"A", "B"}
CacheValues == {"v1", "v2"}

\* get() found nothing: Python's None
Absent == "None"

CacheEntry(key, value, expires_at) ==
    [key |-> key, value |-> value, expires_at |-> expires_at]

NoEntry == CacheEntry("", Absent, 0)

\* an entry is expired from expires_at on
is_expired(entry, t) == t >= entry.expires_at

\* the keys of the memory tier
MemoryKeys(mem) == {mem[i].key : i \in 1..Len(mem)}

\* the memory tier without key
Without(mem, key) == SelectSeq(mem, LAMBDA e : e.key # key)

\* the entry of key in the memory tier
EntryOf(mem, key) == (CHOOSE i \in 1..Len(mem) : mem[i].key = key) 

\* faulty variant: a read does not count as an access
lru_get_KeepsOrder(mem, key, t) ==
    IF key \notin MemoryKeys(mem)
    THEN [memory |-> mem, returned |-> Absent]
    ELSE IF is_expired(mem[EntryOf(mem, key)], t)
    THEN [memory |-> Without(mem, key), returned |-> Absent]
    ELSE [memory |-> mem, returned |-> mem[EntryOf(mem, key)].value]

\* LRUCache.get: the tier it leaves and what it returns
lru_get(mem, key, t) ==
    IF key \notin MemoryKeys(mem)
    THEN [memory |-> mem, returned |-> Absent]
    ELSE IF is_expired(mem[EntryOf(mem, key)], t)
    THEN [memory |-> Without(mem, key), returned |-> Absent]
    ELSE [memory |-> Append(Without(mem, key), mem[EntryOf(mem, key)]),
          returned |-> mem[EntryOf(mem, key)].value]

\* LRUCache.set of an entry: the tier it leaves, of at most size entries
lru_put(mem, entry, size) ==
    IF entry.key \in MemoryKeys(mem)
    THEN Append(Without(mem, entry.key), entry)
    ELSE IF Len(mem) >= size
    THEN Append(Tail(mem), entry)
    ELSE Append(mem, entry)

\* faulty variant: a value promoted from the disk starts a new time to live
promote_Renews(mem, entry, size, t) ==
    lru_put(mem, [entry EXCEPT !.expires_at = t + MaxTtl], size)

\* faulty variant: a disk hit is returned without promotion
promote_Skips(mem, entry, size, t) == mem

\* ContentCache.get on a disk hit: the entry goes into the memory tier
promote(mem, entry, size, t) == lru_put(mem, entry, size)

\* history: key was accessed
Touch(key) == Append(SelectSeq(accessed, LAMBDA k : k # key), key)

CacheOp(op, key, at, returned) ==
    [op |-> op, key |-> key, at |-> at, returned |-> returned]

\* LRUCache.get(key) on the memory tier
MemoryGet(key) ==
    LET got_ == lru_get(memory, key, cache_clock)
    IN  /\ memory' = got_.memory
        /\ cache_op' = CacheOp("memory.get", key, cache_clock, got_.returned)
        /\ accessed' = IF got_.returned # Absent THEN Touch(key)
                       ELSE SelectSeq(accessed, LAMBDA k : k # key)
        /\ UNCHANGED <<disk, max_size, cache_clock, written, notCacheVars>>

\* LRUCache.set(key, value, ttl_seconds) on the memory tier
MemorySet(key, value, ttl) ==
    LET entry == CacheEntry(key, value, cache_clock + ttl)
    IN  /\ memory' = lru_put(memory, entry, max_size)
        /\ cache_op' = CacheOp("memory.set", key, cache_clock, Absent)
        /\ accessed' = Touch(key)
        /\ UNCHANGED <<disk, max_size, cache_clock, written, notCacheVars>>

\* ContentCache.get(key): memory first, then the disk with promotion
CacheGet(key) ==
    LET got_ == lru_get(memory, key, cache_clock)
        file == disk[key]
    IN  /\ IF got_.returned # Absent
           THEN /\ memory' = got_.memory
                /\ disk' = disk
                /\ cache_op' = CacheOp("get", key, cache_clock, got_.returned)
                /\ accessed' = Touch(key)
           ELSE IF file = NoEntry
           THEN /\ memory' = got_.memory
                /\ disk' = disk
                /\ cache_op' = CacheOp("get", key, cache_clock, Absent)
                /\ accessed' = SelectSeq(accessed, LAMBDA k : k # key)
           ELSE IF is_expired(file, cache_clock)
           THEN /\ memory' = got_.memory
                /\ disk' = [disk EXCEPT ![key] = NoEntry]
                /\ cache_op' = CacheOp("get", key, cache_clock, Absent)
                /\ accessed' = SelectSeq(accessed, LAMBDA k : k # key)
           ELSE /\ memory' = promote(got_.memory, file, max_size, cache_clock)
                /\ disk' = disk
                /\ cache_op' = CacheOp("get", key, cache_clock, file.value)
                /\ accessed' = Touch(key)
        /\ UNCHANGED <<max_size, cache_clock, written, notCacheVars>>

\* ContentCache.set(key, value, ttl_seconds): both tiers, the same expiry
CacheSet(key, value, ttl) ==
    LET entry == CacheEntry(key, value, cache_clock + ttl)
    IN  /\ memory' = lru_put(memory, entry, max_size)
        /\ disk' = [disk EXCEPT ![key] = entry]
        /\ cache_op' = CacheOp("set", key, cache_clock, Absent)
        /\ accessed' = Touch(key)
        /\ written' = [written EXCEPT ![key] = entry]
        /\ UNCHANGED <<max_size, cache_clock, notCacheVars>>

\* ContentCache.delete(key): both tiers
CacheDelete(key) ==
    /\ memory' = Without(memory, key)
    /\ disk' = [disk EXCEPT ![key] = NoEntry]
    /\ cache_op' = CacheOp("delete", key, cache_clock, Absent)
    /\ accessed' = SelectSeq(accessed, LAMBDA k : k # key)
    /\ written' = [written EXCEPT ![key] = NoEntry]
    /\ UNCHANGED <<max_size, cache_clock, notCacheVars>>

\* LRUCache.clear() on the memory tier of a ContentCache, as the disk
\* fallback test does
MemoryClear ==
    /\ memory' = <<>>
    /\ cache_op' = CacheOp("memory.clear", "", cache_clock, Absent)
    /\ accessed' = <<>>
    /\ UNCHANGED <<disk, max_size, cache_clock, written, notCacheVars>>

\* ContentCache.clear(): both tiers
CacheClear ==
    /\ memory' = <<>>
    /\ disk' = [k \in LruKeys |-> NoEntry]
    /\ cache_op' = CacheOp("clear", "", cache_clock, Absent)
    /\ accessed' = <<>>
    /\ written' = [k \in LruKeys |-> NoEntry]
    /\ UNCHANGED <<max_size, cache_clock, notCacheVars>>

\* ContentCache(disk_cache_dir=the same directory): an instance with an empty
\* memory tier over the files of the earlier one, as the persistence test does
NewInstance ==
    /\ memory' = <<>>
    /\ cache_op' = CacheOp("new", "", cache_clock, Absent)
    /\ accessed' = <<>>
    /\ UNCHANGED <<disk, max_size, cache_clock, written, notCacheVars>>

\* time passes
CacheTick ==
    /\ cache_clock < MaxCacheTime
    /\ cache_clock' = cache_clock + 1
    /\ UNCHANGED <<memory, disk, max_size, cache_op, written, accessed, notCacheVars>>

\* the state after ContentCache(memory_max_items=size) on an empty directory
CacheConstructed(sizes) ==
    /\ memory = <<>>
    /\ disk = [k \in LruKeys |-> NoEntry]
    /\ max_size \in sizes
    /\ cache_clock = 0
    /\ cache_op = CacheOp("", "", 0, Absent)
    /\ written = [k \in LruKeys |-> NoEntry]
    /\ accessed = <<>>

CacheUnused == CacheConstructed({1})

\* ------------------------------------------- PublicationScraper.fetch_page
\* One scraper whose fetch_page calls run one after the other, as
\* scrape_publications and scrape_press_releases make them.  The cache is
\* seen through get(url) and set(url, html) only, as a map from url to
\* content; fetch_page is its only writer.  Of the rate limiter only the debit
\* of TokenBucket.acquire is kept; its refill and its waiting are above.

\* settings.max_retries, the max_attempts of RetryConfig.from_settings()
MAX_RETRIES == 3

Url(scheme, netloc, path) == [scheme |-> scheme, netloc |-> netloc, path |-> path]

Urls ==
    {Url("https", "www.skolinspektionen.se", "/sok?p=1"),
     Url("https", "api.kolada.se", "/v2/kpi"),
     Url("", "", "/publikationer")}

\* rate_limiter.extract_domain
extract_domain(url) ==
    IF url.scheme \in {"http", "https"}
    THEN IF url.netloc # "" THEN url.netloc ELSE "default"
    ELSE "default"

\* f"{settings.publication_search_url}?p={page}"
PageUrl(p) ==
    Url("https", "www.skolinspektionen.se",
        "/beslut-rapporter/publikationssok/?p=" \o ToString(p))

\* the urls of the calls made directly, and those of the pages scraped
AllUrls == Urls \cup {PageUrl(p) : p \in 1..MaxPages}

FetchHosts == {extract_domain(u) : u \in AllUrls}

HTML == "<html>"
Bodies == {"", HTML}

\* `if html:` on an Optional[str]
TruthyText(text) == text # Absent /\ text # ""

\* what `await self.client.get(url)` ends in
Answer(status, text) == [kind |-> "response", status |-> status, text |-> text, exc |-> NoException]
Throws(e) == [kind |-> "raise", status |-> 0, text |-> "", exc |-> e]

ErrorStatuses == {404, 500}
ClientExceptions == {"TimeoutException", "RemoteProtocolError"}

ClientOutcomes ==
    {Answer(200, b) : b \in Bodies} \cup {Answer(s, "") : s \in ErrorStatuses}
        \cup {Throws(e) : e \in ClientExceptions}

\* what one invocation of the wrapped coroutine ends in
Text(text) == [kind |-> "value", status |-> 0, text |-> text, exc |-> NoException]

\* response.raise_for_status()
raise_for_status(response) ==
    IF response.status \in 200..299 THEN NoException ELSE "HTTPStatusError"

\* PublicationScraper._fetch_page_internal, when the request would end in o:
\* whether a request is sent, and what the coroutine ends in
fetch_page_internal(self, o) ==
    IF ~self.client THEN [sent |-> FALSE, ends |-> Throws("RuntimeError")]
    ELSE IF o.kind = "raise" THEN [sent |-> TRUE, ends |-> Throws(o.exc)]
    ELSE IF raise_for_status(o) # NoException
    THEN [sent |-> TRUE, ends |-> Throws(raise_for_status(o))]
    ELSE [sent |-> TRUE, ends |-> Text(o.text)]

FetchCall(url, use_cache) ==
    [url |-> url, use_cache |-> use_cache,
     attempt |-> 0,           \* the loop variable of the wrapper
     returned |-> Absent,     \* what fetch_page returned
     raised |-> NoException,  \* the exception that left fetch_page
     tokens |-> 0,            \* history: the tokens debited for this call
     outcomes |-> <<>>,       \* history: what each request of this call ended in
     sleeps |-> 0,            \* history: the asyncio.sleep(delay) of the wrapper
     cache_read |-> FALSE,    \* history: cache.get was called
     cache_written |-> FALSE] \* history: cache.set was called

NoFetchCall == FetchCall(Url("", "", ""), FALSE)

\* fetch_page returns value
FetchReturns(call, value) ==
    /\ fetch' = [call EXCEPT !.returned = value]
    /\ fpc' = "returned"

\* faulty variant: the argument use_cache is not looked at
consults_cache_IgnoresArgument(use_cache, self) == self.cache

\* `if use_cache and self.cache`
consults_cache(use_cache, self) == use_cache /\ self.cache

\* fetch_page(url, use_cache) up to the rate limiter: the cache comes first
CallFetchPage(url, use_cache) ==
    /\ fpc \in {"idle", "returned"}
    /\ fetches' = fetches + 1
    /\ IF consults_cache(use_cache, scraper)
       THEN LET call == [FetchCall(url, use_cache) EXCEPT !.cache_read = TRUE]
            IN  IF TruthyText(content_cache[url])
                THEN FetchReturns(call, content_cache[url])
                ELSE fetch' = call /\ fpc' = "limit"
       ELSE fetch' = FetchCall(url, use_cache) /\ fpc' = "limit"
    /\ UNCHANGED <<scraper, content_cache, debited, sent>>

\* a fetch_page call made directly
FetchPage(url, use_cache) ==
    /\ fetches < MaxFetches
    /\ CallFetchPage(url, use_cache)
    /\ UNCHANGED notFetchVars

\* `async with self.rate_limiter.limit(domain)`: one token of the bucket of
\* the host is debited, after the wait for it if there is one
Limit ==
    /\ fpc = "limit"
    /\ debited' = [debited EXCEPT ![extract_domain(fetch.url)] = @ + 1]
    /\ fetch' = [fetch EXCEPT !.tokens = @ + 1]
    /\ fpc' = "attempt"
    /\ UNCHANGED <<scraper, content_cache, sent, fetches, notFetchVars>>

\* `if html and use_cache and self.cache`
store_in_cache(html, use_cache, self) == TruthyText(html) /\ consults_cache(use_cache, self)

\* the wrapped coroutine returned html: the wrapper returns it (a str is no
\* httpx.Response), fetch_page caches and returns it
OnText(call, html) ==
    /\ IF store_in_cache(html, call.use_cache, scraper)
       THEN /\ content_cache' = [content_cache EXCEPT ![call.url] = html]
            /\ FetchReturns([call EXCEPT !.cache_written = TRUE], html)
       ELSE /\ content_cache' = content_cache
            /\ FetchReturns(call, html)

\* faulty variant: fetch_page without its `except Exception`
OnRaise_Propagates(call, e) ==
    /\ fetch' = [call EXCEPT !.raised = e]
    /\ fpc' = "returned"
    /\ content_cache' = content_cache

\* the wrapper raised e: `except Exception` of fetch_page returns None
OnRaise(call, e) ==
    /\ FetchReturns(call, Absent)
    /\ content_cache' = content_cache

\* `except RETRYABLE_EXCEPTIONS` of the wrapper catches exc
retried(exc) == is_retryable_exception(exc)

\* one attempt of the wrapper around _fetch_page_internal, which has no
\* circuit breaker: the request ends in o
Attempt(o) ==
    LET did == fetch_page_internal(scraper, o)
        host == extract_domain(fetch.url)
        call == [fetch EXCEPT !.outcomes = IF did.sent THEN Append(@, o) ELSE @]
    IN  /\ fpc = "attempt"
        /\ sent' = [sent EXCEPT ![host] = IF did.sent THEN @ + 1 ELSE @]
        /\ IF did.ends.kind = "value"
           THEN OnText(call, did.ends.text)
           ELSE IF retried(did.ends.exc)
           THEN IF call.attempt < scraper.max_attempts - 1
                THEN /\ fetch' = [call EXCEPT !.sleeps = @ + 1]
                     /\ fpc' = "sleeping"
                     /\ content_cache' = content_cache
                ELSE OnRaise(call, "MaxRetriesExceededError")
           ELSE OnRaise(call, did.ends.exc)
        /\ UNCHANGED <<scraper, debited, fetches, notFetchVars>>

\* asyncio.sleep(delay) of the wrapper is over: the next attempt
FetchWake ==
    /\ fpc = "sleeping"
    /\ fetch' = [fetch EXCEPT !.attempt = @ + 1]
    /\ fpc' = "attempt"
    /\ UNCHANGED <<scraper, content_cache, debited, sent, fetches, notFetchVars>>

\* PublicationScraper(use_cache=c) with settings.max_retries = m, entered with
\* `async with` or not, over a cache directory that holds the pages in cached
ScraperConstructed(clients, caches, attempts, cached) ==
    /\ \E cl \in clients, c \in caches, m \in attempts :
          scraper = [client |-> cl, cache |-> c, max_attempts |-> m]
    /\ \E held \in SUBSET cached :
          content_cache = [u \in AllUrls |-> IF u \in held THEN HTML ELSE Absent]
    /\ debited = [h \in FetchHosts |-> 0]
    /\ sent = [h \in FetchHosts |-> 0]
    /\ fpc = "idle"
    /\ fetch = NoFetchCall
    /\ fetches = 0

FetchUnused == ScraperConstructed({FALSE}, {FALSE}, {1}, {})

\* ---------------------------------- PublicationScraper.scrape_publications
\* One scrape_publications() call on the scraper above, entered with
\* `async with`, so that its DeltaTracker, if it has one, is loaded.  Every
\* page goes through fetch_page; what the parsers find in a page that came
\* back is drawn.

\* "assuming ~20 items per page"
ITEMS_PER_PAGE == 20

\* what _parse_publication_list finds in a page
PageItemsDrawn == {0, ITEMS_PER_PAGE}

\* what _extract_total_count finds in the first page: no count, or a count
TotalsDrawn == {None} \cup CountsDrawn

ScrapeRun(use_delta, pages) ==
    [use_delta |-> use_delta,        \* self.delta_tracker is not None
     max_pages |-> pages,            \* max_pages or settings.max_pages_per_scrape
     page |-> 1,
     publications |-> 0,             \* len(publications)
     total_online |-> None,
     delta |-> NotCalled,
     stopped |-> "",                 \* history: what ended the loop
     returned |-> None]              \* len() of the list returned

\* the tracker method op was called from the scraper
TrackerUsed(op, count, returned) ==
    /\ last_call' = TrackerCall(op, "publications", count, returned, tracker_new)
    /\ tracker_new' = FALSE
    /\ UNCHANGED <<metadata_file, today, on_disk>>

\* what the scraper, its tracker and its fetch_page leave alone
scrapeFrame ==
    <<retryVars, bucketVars, limiterVars, delayVars, deltaVars, refresherVars, cacheVars>>

\* scrape_publications() up to its first fetch_page: with a tracker the first
\* page is fetched past the cache, for the total count
ScrapePublications ==
    /\ spc = "idle"
    /\ IF scrape.use_delta
       THEN CallFetchPage(PageUrl(1), FALSE) /\ spc' = "first"
       ELSE UNCHANGED fetchVars /\ spc' = "loop"
    /\ UNCHANGED <<scrape, trackerVars, scrapeFrame>>

\* `estimated_pages = (delta.items_to_fetch // 20) + 1; max_pages = min(...)`
capped_pages(max_pages, delta) ==
    IF delta.is_full_scrape THEN max_pages
    ELSE Min(max_pages, delta.items_to_fetch \div ITEMS_PER_PAGE + 1)

\* the first page is back: total_online is what _extract_total_count finds
\* in it, and a total that is not 0 goes to calculate_delta
AfterFirstPage(total) ==
    /\ spc = "first"
    /\ fpc = "returned"
    /\ spc' = "loop"
    /\ IF TruthyText(fetch.returned) /\ Truthy(total)
       THEN LET delta == calculate_delta(metadata, "publications", total, today)
            IN  /\ scrape' = [scrape EXCEPT !.total_online = total, !.delta = delta,
                                            !.max_pages = capped_pages(@, delta)]
                /\ TrackerUsed("calculate_delta", total, delta)
                /\ UNCHANGED metadata
       ELSE /\ scrape' = [scrape EXCEPT !.total_online =
                                            IF TruthyText(fetch.returned) THEN total ELSE None]
            /\ UNCHANGED trackerVars
    /\ UNCHANGED <<fetchVars, scrapeFrame>>

\* faulty variant: the total found online is recorded
RecordAndReturn_RecordsTotal(run) ==
    /\ spc' = "done"
    /\ scrape' = [run EXCEPT !.returned = run.publications]
    /\ IF run.use_delta
       THEN /\ metadata' = record_update(metadata, "publications",
                                         IF Truthy(run.total_online) THEN run.total_online
                                         ELSE run.publications, today)
            /\ TrackerUsed("record_update", run.publications, NotCalled)
       ELSE UNCHANGED trackerVars

\* after the loop: record_update("publications", len(publications)) if there
\* is a tracker, and the list is returned
RecordAndReturn(run) ==
    /\ spc' = "done"
    /\ scrape' = [run EXCEPT !.returned = run.publications]
    /\ IF run.use_delta
       THEN /\ metadata' = record_update(metadata, "publications", run.publications, today)
            /\ TrackerUsed("record_update", run.publications, NotCalled)
       ELSE UNCHANGED trackerVars

\* `while page <= max_pages`: the next page is fetched, or the loop is over
NextPage ==
    /\ spc = "loop"
    /\ IF scrape.page <= scrape.max_pages
       THEN /\ CallFetchPage(PageUrl(scrape.page), TRUE)
            /\ spc' = "page"
            /\ UNCHANGED <<scrape, trackerVars>>
       ELSE /\ RecordAndReturn([scrape EXCEPT !.stopped = "pages"])
            /\ UNCHANGED fetchVars
    /\ UNCHANGED scrapeFrame

\* a page is back: no html or no items in it end the loop, items are added
\* to the list
AfterPage(items) ==
    /\ spc = "page"
    /\ fpc = "returned"
    /\ IF ~TruthyText(fetch.returned)
       THEN RecordAndReturn([scrape EXCEPT !.stopped = "fetch"])
       ELSE IF items = 0
       THEN RecordAndReturn([scrape EXCEPT !.stopped = "empty"])
       ELSE /\ scrape' = [scrape EXCEPT !.publications = @ + items, !.page = @ + 1]
            /\ spc' = "loop"
            /\ UNCHANGED trackerVars
    /\ UNCHANGED <<fetchVars, scrapeFrame>>

\* nobody scrapes
ScrapeUnused ==
    /\ spc = "idle"
    /\ scrape = ScrapeRun(FALSE, 1)

OthersUnused ==
    TrackerUnused /\ RefresherUnused /\ CacheUnused /\ FetchUnused /\ ScrapeUnused

\* ------------------------------------------------------------ specification
\* The state after `breaker = CircuitBreaker(config)` and
\* `@with_retry(RetryConfig(max_attempts=m), circuit_breaker=breaker or None)`,
\* with the callers in cs and max_attempts at most m.  time.monotonic() is
\* positive, so a stamped last_failure_time is never the falsy 0.0.
NoCallYet ==
    /\ now = 1
    /\ consecutive_failures = 0
    /\ half_open_successes = 0
    /\ pc = [c \in Callers |-> "idle"]
    /\ attempt = [c \in Callers |-> 0]
    /\ invocations = [c \in Callers |-> 0]
    /\ sleeps = [c \in Callers |-> 0]
    /\ hist = [c \in Callers |-> <<>>]
    /\ last_exception = [c \in Callers |-> NoException]
    /\ result = [c \in Callers |-> Pending]
    /\ recorded = [c \in Callers |-> NothingRecorded]

Constructed(cs, m) ==
    /\ \E f \in 1..MaxFailureThreshold, s \in 1..DEFAULT_SUCCESS_THRESHOLD,
          t \in 1..MaxTimeout :
          cb = CircuitBreaker(CircuitBreakerConfig(f, s, t))
    /\ attached \in BOOLEAN
    /\ callers = cs
    /\ max_attempts \in 1..m
    /\ NoCallYet

\* a decorated function that nobody calls, without a breaker
RetryUnused ==
    /\ cb = CircuitBreaker(CircuitBreakerConfig(1, 1, 1))
    /\ attached = FALSE
    /\ callers = {}
    /\ max_attempts = 1
    /\ NoCallYet

\* only the wrapped function and its breaker are in use
NothingElse ==
    BucketUnused /\ LimiterConstructed /\ DelayUnused /\ DeltaUnused /\ OthersUnused

\* one caller at a time; other users of the breaker appear as direct calls
RetryInit == Constructed({"a"}, DEFAULT_MAX_ATTEMPTS) /\ NothingElse

\* two coroutines share the wrapped function and its breaker
ConcurrentInit == Constructed(Callers, MaxConcurrentAttempts) /\ NothingElse

\* the retry wrapper and the breaker touch nothing else
RetryOnly == UNCHANGED notRetryVars

RetryNext ==
    \/ \E c \in callers : Call(c) /\ RetryOnly
    \/ \E c \in callers, o \in OpOutcomes : OpCompletes(c, o) /\ RetryOnly
    \/ \E c \in callers : Wake(c) /\ RetryOnly
    \/ \E c \in callers : NewCall(c) /\ RetryOnly
    \/ CanExecute /\ RetryOnly
    \/ RecordSuccess /\ RetryOnly
    \/ RecordFailure /\ RetryOnly
    \/ Tick /\ RetryOnly

RetrySpec == RetryInit /\ [][RetryNext]_vars

\* an awaited op finishes and an awaited sleep ends: the event loop resumes
\* every coroutine whose await is over
RetryFairness ==
    \A c \in Callers :
        /\ WF_vars(\E o \in OpOutcomes : OpCompletes(c, o) /\ RetryOnly)
        /\ WF_vars(Wake(c) /\ RetryOnly)

FairRetrySpec == RetrySpec /\ RetryFairness

ConcurrentSpec == ConcurrentInit /\ [][RetryNext]_vars

\* ---------------------------------------------- specification: TokenBucket
\* one bucket, used by the coroutines in Acquirers
BucketInit ==
    /\ BucketConstructed(1..MaxRate, 1..MaxCapacity)
    /\ RetryUnused /\ LimiterConstructed /\ DelayUnused /\ DeltaUnused /\ OthersUnused

BucketNext ==
    \/ \E p \in Acquirers, n \in 1..MaxTokens : Acquire(p, n)
    \/ \E p \in Acquirers : Enter(p)
    \/ \E p \in Acquirers : WakeUp(p)
    \/ BucketTick

BucketSpec == BucketInit /\ [][BucketNext]_vars

\* the event loop resumes a coroutine whose lock wait or sleep is over, and
\* time passes
BucketFairness ==
    /\ \A p \in Acquirers : WF_vars(Enter(p)) /\ WF_vars(WakeUp(p))
    /\ WF_vars(BucketTick)

FairBucketSpec == BucketSpec /\ BucketFairness

\* ------------------------------------------ specification: calculate_delay
DelayInit ==
    /\ \E n \in 0..MaxAttempt, i \in 0..MaxInitialDelay, f \in 0..MaxBackoffFactor,
          m \in 0..MaxMaxDelay, j \in BOOLEAN :
          delay_call = DelayCall(n, RetryConfig(i, f, m, j))
    /\ delay_result = None
    /\ RetryUnused /\ BucketUnused /\ LimiterConstructed /\ DeltaUnused /\ OthersUnused

DelayNext == CalculateDelay

DelaySpec == DelayInit /\ [][DelayNext]_vars

\* --------------------------------- specification: calculate_items_to_fetch
DeltaInit ==
    /\ \E o \in 0..MaxCount, s \in 0..MaxCount, d \in DaysDrawn, b \in BuffersDrawn :
          delta_call = DeltaCall(o, s, d, b, DEFAULT_DAILY_FACTOR)
    /\ delta_result = NotCalled
    /\ RetryUnused /\ BucketUnused /\ LimiterConstructed /\ DelayUnused /\ OthersUnused

DeltaNext == CalculateItemsToFetch

DeltaSpec == DeltaInit /\ [][DeltaNext]_vars

\* ---------------------------------------------- specification: RateLimiter
\* one limiter, used by the coroutines in Acquirers for the hosts in Hosts
LimiterInit ==
    /\ LimiterConstructed
    /\ RetryUnused /\ BucketUnused /\ DelayUnused /\ DeltaUnused /\ OthersUnused

LimiterNext ==
    \/ \E a \in Acquirers, h \in Hosts : GetBucket(a, h)
    \/ \E a \in Acquirers : TakeLimiterLock(a)
    \/ \E a \in Acquirers : GetBucketBody(a)
    \/ \E a \in Acquirers : UseBucket(a)

LimiterSpec == LimiterInit /\ [][LimiterNext]_vars

\* --------------------------------------------- specification: DeltaTracker
\* `DeltaTracker(path)` on day 0, the file at path absent, unreadable, or
\* left by an earlier run that recorded 40 publications
TrackerInit ==
    /\ metadata = NoMetadata
    /\ \/ metadata_file = MissingFile /\ on_disk = NoMetadata
       \/ metadata_file = InvalidFile /\ on_disk = NoMetadata
       \/ /\ on_disk = UpdateMetadata(0, DictSet(EmptyDict, "publications", 40))
          /\ metadata_file = save_update_metadata(on_disk)
    /\ today = 0
    /\ tracker_new = TRUE
    /\ last_call = NoTrackerCall
    /\ RetryUnused /\ BucketUnused /\ LimiterConstructed /\ DelayUnused /\ DeltaUnused
    /\ RefresherUnused /\ CacheUnused /\ FetchUnused /\ ScrapeUnused

TrackerNext ==
    \/ NewTracker
    \/ Load
    \/ Save
    \/ \E t \in ItemTypes, c \in CountsDrawn : RecordUpdate(t, c)
    \/ \E t \in ItemTypes, o \in CountsDrawn : CalculateDelta(t, o)
    \/ TrackerDay

TrackerSpec == TrackerInit /\ [][TrackerNext]_vars

\* -------------------------------------------- specification: DataRefresher
\* the state file h earlier runs left: full refreshes that succeeded, the
\* one before the last a refresh of kolada alone
EarlierRuns(h) ==
    [last_full_refresh |-> h, last_incremental_refresh |-> h - 1,
     source_states |->
         [s \in refresh_methods |-> [last_refresh |-> h, status |-> SUCCESS, items |-> 1]],
     refresh_history |->
         [i \in 1..h |-> HistoryEntry(i, IF i = h - 1 THEN <<"kolada">> ELSE all_sources,
                                      TRUE, 0)]]

\* no state file, or one whose history is about to fill, or is full
HistoriesDrawn == {HISTORY_LIMIT - 1, HISTORY_LIMIT}

RefresherInit ==
    /\ RefresherIdle
    /\ \/ state_file = NotRun /\ rclock = 0
       \/ \E h \in HistoriesDrawn : state_file = save_state(EarlierRuns(h)) /\ rclock = h
    /\ RetryUnused /\ BucketUnused /\ LimiterConstructed /\ DelayUnused /\ DeltaUnused
    /\ TrackerUnused /\ CacheUnused /\ FetchUnused /\ ScrapeUnused

RefresherNext ==
    \/ \E arg \in SourcesDrawn : AsyncMain(arg)
    \/ StartSource
    \/ RoutineRaises
    \/ \E n \in 0..MaxFiles : \E parses \in [1..n -> BOOLEAN] : RoutineCompletes(parses)
    \/ Finalize
    \/ Exit

RefresherSpec == RefresherInit /\ [][RefresherNext]_vars

\* --------------------------------------------- specification: ContentCache
\* one ContentCache over the keys in CacheKeys
CacheInit ==
    /\ CacheConstructed(1..MaxSize)
    /\ RetryUnused /\ BucketUnused /\ LimiterConstructed /\ DelayUnused /\ DeltaUnused
    /\ TrackerUnused /\ RefresherUnused /\ FetchUnused /\ ScrapeUnused

CacheNext ==
    \/ \E k \in CacheKeys : CacheGet(k)
    \/ \E k \in CacheKeys, v \in CacheValues, ttl \in 1..MaxTtl : CacheSet(k, v, ttl)
    \/ \E k \in CacheKeys : CacheDelete(k)
    \/ MemoryClear
    \/ CacheClear
    \/ NewInstance
    \/ CacheTick

CacheSpec == CacheInit /\ [][CacheNext]_vars

\* ------------------------------------------------- specification: LRUCache
\* the memory tier alone, over the keys in LruKeys
LruNext ==
    \/ \E k \in LruKeys : MemoryGet(k)
    \/ \E k \in LruKeys : MemorySet(k, "v1", MaxTtl)
    \/ CacheTick

LruSpec == CacheInit /\ [][LruNext]_vars

\* ----------------------------------------------- specification: fetch_page
\* fetch_page calls, one after the other, on one scraper
FetchInit ==
    /\ ScraperConstructed(BOOLEAN, BOOLEAN, 1..MAX_RETRIES, Urls)
    /\ RetryUnused /\ BucketUnused /\ LimiterConstructed /\ DelayUnused /\ DeltaUnused
    /\ TrackerUnused /\ RefresherUnused /\ CacheUnused /\ ScrapeUnused

FetchNext ==
    \/ \E u \in Urls, c \in BOOLEAN : FetchPage(u, c)
    \/ Limit
    \/ \E o \in ClientOutcomes : Attempt(o)
    \/ FetchWake

FetchSpec == FetchInit /\ [][FetchNext]_vars

\* --------------------------------------- specification: scrape_publications
\* one scrape_publications() call of a scraper with or without a tracker,
\* whose file is absent or holds 40 publications counted on day 0, on day 0
\* or after more than STALE_DAYS
ScrapeInit ==
    /\ ScraperConstructed({TRUE}, BOOLEAN, {2}, {PageUrl(1)})
    /\ spc = "idle"
    /\ \E d \in BOOLEAN, m \in 1..MaxPages : scrape = ScrapeRun(d, m)
    /\ \/ metadata_file = MissingFile /\ on_disk = NoMetadata
       \/ /\ on_disk = UpdateMetadata(0, DictSet(EmptyDict, "publications", 40))
          /\ metadata_file = save_update_metadata(on_disk)
    /\ metadata = IF scrape.use_delta THEN load_update_metadata(metadata_file) ELSE NoMetadata
    /\ today \in {0, STALE_DAYS + 1}
    /\ tracker_new = ~scrape.use_delta
    /\ last_call = IF scrape.use_delta THEN TrackerCall("load", "", 0, NotCalled, TRUE)
                   ELSE NoTrackerCall
    /\ RetryUnused /\ BucketUnused /\ LimiterConstructed /\ DelayUnused /\ DeltaUnused
    /\ RefresherUnused /\ CacheUnused

ScrapeNext ==
    \/ ScrapePublications
    \/ \E t \in TotalsDrawn : AfterFirstPage(t)
    \/ NextPage
    \/ \E n \in PageItemsDrawn : AfterPage(n)
    \/ Limit
    \/ \E o \in ClientOutcomes : Attempt(o)
    \/ FetchWake

ScrapeSpec == ScrapeInit /\ [][ScrapeNext]_vars

\* =================================================================== claims
Elapsed == now - cb.last_failure_time

\* a step in which caller c enters the wrapper
Calls(c) == pc[c] = "idle" /\ pc'[c] # "idle"

\* a step in which record_failure() is called on the breaker
FailureRecorded == consecutive_failures' = consecutive_failures + 1

\* C1: a wrapped call made with a breaker attached whose can_execute() is
\* false ends at once in CircuitBreakerOpenError: op is invoked zero times,
\* nothing is slept, and the breaker's state, failure_count and
\* last_failure_time stay as they were.
C1_OpenBreakerFailsFast ==
    [][\A c \in Callers :
          (Calls(c) /\ attached /\ ~can_execute(cb, now).ret)
            => /\ pc'[c] = "done"
               /\ result'[c] = CircuitBreakerOpenError
               /\ invocations'[c] = 0
               /\ sleeps'[c] = 0
               /\ hist'[c] = <<>>
               /\ cb'.state = cb.state
               /\ cb'.failure_count = cb.failure_count
               /\ cb'.last_failure_time = cb.last_failure_time]_vars

C1_Witness ==
    \E c \in callers :
        /\ pc[c] = "done"
        /\ result[c] = CircuitBreakerOpenError
        /\ cb.state = OPEN
        /\ invocations[c] = 0

\* C2: from CLOSED the breaker opens exactly at the failure_threshold-th
\* record_failure() in a row: with fewer it is CLOSED and can_execute() is
\* true, and a record_success() while CLOSED puts failure_count back to 0, so
\* the count of failures in a row is what failure_count holds while CLOSED.
C2_OpensAtThreshold ==
    /\ [](cb.state = CLOSED =>
            /\ consecutive_failures < cb.config.failure_threshold
            /\ cb.failure_count = consecutive_failures
            /\ can_execute(cb, now).ret)
    /\ [][/\ (cb.state = CLOSED /\ cb'.state # CLOSED) =>
              /\ cb'.state = OPEN
              /\ FailureRecorded
              /\ consecutive_failures' = cb.config.failure_threshold
          /\ (cb.state = CLOSED /\ FailureRecorded
                /\ consecutive_failures' >= cb.config.failure_threshold) =>
              cb'.state = OPEN
          /\ (cb.state = CLOSED /\ consecutive_failures > 0
                /\ consecutive_failures' = 0) =>
              (cb'.state = CLOSED /\ cb'.failure_count = 0)]_vars

C2_Witness ==
    /\ cb.state = OPEN
    /\ cb.config.failure_threshold >= 2
    /\ consecutive_failures = cb.config.failure_threshold
    /\ cb.failure_count = cb.config.failure_threshold

\* C3: an OPEN breaker leaves OPEN only in a can_execute() made at least
\* `timeout` after last_failure_time, to HALF_OPEN with success_count 0 and
\* nothing else changed; a can_execute() made earlier returns false (the
\* wrapped call is refused) and changes nothing; OPEN never becomes CLOSED.
C3_OpenLeavesOnlyAfterTimeout ==
    [][/\ (cb.state = OPEN /\ cb'.state # OPEN) =>
           /\ cb.last_failure_time # None
           /\ Elapsed >= cb.config.timeout
           /\ cb' = [cb EXCEPT !.state = HALF_OPEN, !.success_count = 0]
           /\ half_open_successes' = 0
           /\ consecutive_failures' = consecutive_failures
       /\ \A c \in Callers :
           (Calls(c) /\ attached /\ cb.state = OPEN /\ Elapsed < cb.config.timeout) =>
              (cb' = cb /\ result'[c] = CircuitBreakerOpenError)
       /\ (CanExecute /\ cb.state = OPEN /\ Elapsed < cb.config.timeout) =>
              cb' = cb]_vars

C3_Witness ==
    /\ cb.state = HALF_OPEN
    /\ cb.success_count = 0
    /\ half_open_successes = 0
    /\ Elapsed >= cb.config.timeout
    /\ \E c \in callers : pc[c] = "running"

\* C4: HALF_OPEN becomes CLOSED only at the success_threshold-th
\* record_success() since HALF_OPEN was entered (a failure would have left
\* HALF_OPEN), and failure_count is then 0; with fewer it stays HALF_OPEN;
\* CLOSED is entered from no other state.
C4_HalfOpenClosesAtThreshold ==
    /\ [](cb.state = HALF_OPEN =>
            /\ half_open_successes < cb.config.success_threshold
            /\ cb.success_count = half_open_successes)
    /\ [][/\ (cb.state # CLOSED /\ cb'.state = CLOSED) =>
              /\ cb.state = HALF_OPEN
              /\ half_open_successes' = half_open_successes + 1
              /\ half_open_successes' = cb.config.success_threshold
              /\ cb'.failure_count = 0
          /\ (cb.state = HALF_OPEN
                /\ half_open_successes' = half_open_successes + 1
                /\ half_open_successes' < cb.config.success_threshold) =>
              cb'.state = HALF_OPEN]_vars

C4_Witness ==
    /\ cb.state = CLOSED
    /\ cb.config.success_threshold = 2
    /\ half_open_successes = 2
    /\ cb.failure_count = 0
    /\ cb.last_failure_time # None

\* C5: a record_failure() while HALF_OPEN, whatever failure_count and
\* success_count are, gives OPEN with last_failure_time = now, and from then
\* on can_execute() is true exactly from now + timeout.
C5_HalfOpenFailureReopens ==
    [][(cb.state = HALF_OPEN /\ FailureRecorded) =>
          /\ cb'.state = OPEN
          /\ cb'.last_failure_time = now
          /\ \A t \in now..(MaxTime + MaxTimeout) :
                can_execute(cb', t).ret <=> (t - now >= cb.config.timeout)]_vars

\* OPEN after one success as probe: the probe phase ended in a failure while
\* failure_count was below the threshold
C5_Witness ==
    /\ cb.state = OPEN
    /\ cb.config.success_threshold = 2
    /\ half_open_successes = 1
    /\ cb.failure_count < cb.config.failure_threshold
    /\ cb.last_failure_time = now

\* C6 (as claimed): once a can_execute() has moved the breaker to HALF_OPEN
\* and no success or failure has been recorded since (success_count is still
\* 0 and the state still HALF_OPEN), no further call is admitted.
C6_OnlyTheProbeIsAdmitted ==
    [][\A c \in Callers :
          (Calls(c) /\ attached /\ cb.state = HALF_OPEN /\ half_open_successes = 0)
            => pc'[c] # "running"]_vars

\* what one finished invocation of op was, in the words of the claims
IsTransientError(o) == o.kind = "raise" /\ o.exc \in RETRYABLE_EXCEPTIONS
IsOtherError(o) == o.kind = "raise" /\ o.exc \notin RETRYABLE_EXCEPTIONS
IsRetryableStatus(o) == o.kind = "response" /\ o.status \in RETRYABLE_STATUS_CODES
IsSuccess(o) == o.kind # "raise" /\ ~IsRetryableStatus(o)

AllOf(h, P(_)) == \A i \in 1..Len(h) : P(h[i])

\* C7: when op raised a transient error on its first k invocations and then
\* succeeded, the call has returned that value after k+1 invocations (k+1 is
\* within max_attempts); the call does not end while only transient errors
\* were seen and attempts remain; nothing is invoked after a success.
C7_ReturnsAfterKTransientErrors ==
    \A c \in Callers :
        LET h == hist[c]
            n == Len(hist[c])
        IN  /\ (n > 0 /\ AllOf(SubSeq(h, 1, n - 1), IsTransientError) /\ IsSuccess(h[n])) =>
                  /\ pc[c] = "done"
                  /\ result[c] = Returned(h[n])
                  /\ invocations[c] = n
                  /\ n <= max_attempts
            /\ (n > 0 /\ n < max_attempts /\ AllOf(h, IsTransientError)) =>
                  /\ pc[c] \in {"sleeping", "running"}
                  /\ invocations[c] = IF pc[c] = "running" THEN n + 1 ELSE n
            /\ \A i \in 1..(n - 1) : ~IsSuccess(h[i])

C7_Witness ==
    \E c \in callers :
        /\ pc[c] = "done"
        /\ Len(hist[c]) = 3
        /\ IsTransientError(hist[c][1])
        /\ IsTransientError(hist[c][2])
        /\ IsSuccess(hist[c][3])
        /\ result[c].kind = "returned"
        /\ invocations[c] = 3

\* C8: when op raised a transient error on every invocation, the ended call
\* has invoked it max_attempts times and slept max_attempts - 1 times, and
\* raised MaxRetriesExceededError carrying the last error; no call invokes op
\* more than max_attempts times, and every admitted call ends.
C8_Safety ==
    \A c \in Callers :
        LET h == hist[c]
            n == Len(hist[c])
        IN  /\ invocations[c] <= max_attempts
            /\ sleeps[c] <= max_attempts - 1
            /\ (pc[c] = "done" /\ n > 0 /\ AllOf(h, IsTransientError)) =>
                  /\ n = max_attempts
                  /\ invocations[c] = max_attempts
                  /\ sleeps[c] = max_attempts - 1
                  /\ result[c] = MaxRetriesExceededError(h[n].exc)

C8_ExhaustsAndTerminates ==
    /\ []C8_Safety
    /\ \A c \in Callers : (pc[c] \in {"running", "sleeping"}) ~> (pc[c] = "done")

C8_Witness ==
    \E c \in callers :
        /\ pc[c] = "done"
        /\ max_attempts = 3
        /\ Len(hist[c]) = 3
        /\ AllOf(hist[c], IsTransientError)
        /\ result[c].kind = "MaxRetriesExceededError"
        /\ sleeps[c] = 2

\* C9 (as claimed): when op answered with a retryable status on every one
\* of the max_attempts attempts, the call ends in MaxRetriesExceededError and
\* not in returning that response.
C9_RetryableStatusExhausts ==
    \A c \in Callers :
        (/\ pc[c] = "done"
         /\ Len(hist[c]) = max_attempts
         /\ AllOf(hist[c], IsRetryableStatus)) =>
            result[c].kind = "MaxRetriesExceededError"

\* C10: an error outside the transient set ends the call where it occurs:
\* it is the last invocation, the same error is raised to the caller (never
\* MaxRetriesExceededError), and no sleep follows it; raised by the first
\* invocation, op was invoked once and nothing was slept.
C10_OtherErrorPropagatesAtOnce ==
    \A c \in Callers :
        \A i \in 1..Len(hist[c]) :
            IsOtherError(hist[c][i]) =>
                /\ i = Len(hist[c])
                /\ pc[c] = "done"
                /\ result[c] = Raised(hist[c][i].exc)
                /\ invocations[c] = i
                /\ sleeps[c] = i - 1

C10_Witness ==
    \E c \in callers :
        /\ max_attempts = 3
        /\ hist[c] = <<Raise("ValueError")>>
        /\ pc[c] = "done"
        /\ result[c] = Raised("ValueError")
        /\ invocations[c] = 1

\* ---------------------------------------------------------------------- C11
\* the attempts of the current call of c in which op raised
RaisedAttempts(c) == {i \in DOMAIN hist[c] : hist[c][i].kind = "raise"}

\* C11: with a breaker attached, a wrapped call has called record_failure()
\* once for every attempt in which op raised, and record_success() once if
\* it returned a value to its caller and not at all otherwise.
C11_BreakerAccounting ==
    attached =>
        \A c \in callers :
            /\ recorded[c].failures = Cardinality(RaisedAttempts(c))
            /\ recorded[c].successes = IF result[c].kind = "returned" THEN 1 ELSE 0

\* a call that returned a value after one attempt that raised
C11_Witness ==
    /\ attached
    /\ result["a"].kind = "returned"
    /\ Len(hist["a"]) = 2
    /\ recorded["a"] = [failures |-> 1, successes |-> 1]

\* ---------------------------------------------------------------------- C12
\* C12: the bucket never holds more than capacity tokens, and once an
\* acquire has returned it does not hold a negative number of tokens.
C12_TokensWithinBounds ==
    /\ bucket.tokens <= bucket.capacity
    /\ (\E p \in Acquirers : apc[p] = "returned") => bucket.tokens >= 0

\* ---------------------------------------------------------------------- C13
\* the acquirers between their availability check and their debit
InCheckToDebit == {p \in Acquirers : apc[p] = "waiting"}

\* C13: at most one acquirer is between its availability check and its
\* debit, while it is there the bucket changes only by its own debit, and
\* the tokens granted by time t never exceed capacity + rate * t.
C13_SerializedNeverOverDebit ==
    /\ [](Cardinality(InCheckToDebit) <= 1)
    /\ [](granted <= bucket.capacity + bucket.rate * clock)
    /\ [][\A p \in InCheckToDebit : bucket' = bucket \/ apc'[p] = "returned"]_vars

\* one acquirer sleeps for its deficit while the other is queued at the lock
C13_Witness ==
    /\ apc["p"] = "waiting"
    /\ apc["q"] = "queued"
    /\ lock = <<"p", "q">>
    /\ granted > 0

\* ---------------------------------------------------------------------- C14
\* on a new bucket the first capacity acquire(1) calls in a row wait 0 and
\* the next one waits more than 0
FirstWaits ==
    \A i \in DOMAIN fresh_waits :
        /\ i <= bucket.capacity => fresh_waits[i].num = 0
        /\ i = bucket.capacity + 1 => fresh_waits[i].num > 0

\* the acquirers whose wait_time is decided
PastCheck == {p \in Acquirers : apc[p] \in {"waiting", "returned"}}

\* C14 as stated: the first capacity acquire(1) calls wait 0, the next one
\* more, and acquire(n) waits 0 exactly when n tokens were available at the
\* call.
C14_ZeroWaitIffAvailableAtCall ==
    /\ FirstWaits
    /\ \A p \in PastCheck : wait_time[p].num = 0 <=> enough[p].call

\* C14 amended: the first capacity acquire(1) calls wait 0, the next one
\* more, and acquire(n) waits 0 exactly when n tokens are available when it
\* gets the bucket lock, which is at the call when the lock is free.
C14_ZeroWaitIffAvailableAtLock ==
    /\ [](FirstWaits)
    /\ [](\A p \in PastCheck : wait_time[p].num = 0 <=> enough[p].lock)
    /\ [][\A p \in Acquirers, n \in 1..MaxTokens :
            Acquire(p, n) /\ lock = <<>> => enough'[p].call = enough'[p].lock]_vars

\* capacity + 1 acquire(1) calls in a row on a new bucket of capacity 2, the
\* last of them back from its wait
C14_Witness ==
    /\ bucket.capacity = 2
    /\ Len(fresh_waits) = 3
    /\ \E p \in Acquirers :
          apc[p] = "returned" /\ req[p] = 1 /\ wait_time[p].num > 0 /\ ~enough[p].lock

\* ---------------------------------------------------------------------- C15
\* C15: every acquire that is queued at the lock or asleep for its deficit
\* eventually returns, and an acquirer that has slept once goes on to debit
\* and return without a second wait.
C15_EveryAcquireReturns ==
    /\ \A p \in Acquirers : (apc[p] \in {"queued", "waiting"}) ~> (apc[p] = "returned")
    /\ [][\A p \in Acquirers :
            apc[p] = "waiting" => apc'[p] = "waiting" \/
                (apc'[p] = "returned" /\ granted' = granted + req[p])]_vars

\* an acquirer that was queued behind a sleeping one, slept itself and returned
C15_Witness ==
    \E p \in Acquirers :
        /\ apc[p] = "returned"
        /\ enough[p].call /\ ~enough[p].lock
        /\ wait_time[p].num > 0

\* ---------------------------------------------------------------------- C16
\* C16: the limiter has constructed exactly one bucket for each host that has
\* an entry, distinct hosts have distinct buckets, the entry of a host is
\* still the first bucket constructed for it, and that is the bucket every
\* access for the host gets.
C16_OneBucketPerHost ==
    /\ created = Cardinality({h \in Hosts : buckets[h] # NoBucket})
    /\ \A h \in Hosts : buckets[h] = first_bucket[h]
    /\ \A g, h \in Hosts : buckets[g] # NoBucket /\ buckets[g] = buckets[h] => g = h
    /\ \A a \in Acquirers :
          lpc[a] = "has_bucket" => got[a] # NoBucket /\ got[a] = first_bucket[domain[a]]

\* two coroutines went for the second host's first bucket and hold the same one
C16_Witness ==
    /\ lpc["p"] = "has_bucket" /\ lpc["q"] = "has_bucket"
    /\ domain["p"] = domain["q"]
    /\ got["p"] = 2 /\ got["q"] = 2
    /\ created = 2

DeltaReturned == delta_result # NotCalled

\* a full scrape of everything online, for this reason
FullScrapeFor(reason) ==
    /\ delta_result.reason = reason
    /\ delta_result.is_full_scrape
    /\ delta_result.items_to_fetch = delta_call.online_count

\* C18: fewer items online than saved gives the removal reason whatever the
\* staleness; otherwise more than 30 days gives the stale reason whatever
\* saved_count; otherwise saved_count = 0 gives the initial-scrape reason;
\* each with is_full_scrape and items_to_fetch = online_count.
C18_FullScrapeRulesInOrder ==
    LET c == delta_call
    IN  DeltaReturned =>
            /\ c.online_count < c.saved_count => FullScrapeFor(REMOVED)
            /\ (c.online_count >= c.saved_count /\ c.days_since_update > STALE_DAYS)
                    => FullScrapeFor(STALE)
            /\ (c.online_count >= c.saved_count /\ c.days_since_update <= STALE_DAYS
                    /\ c.saved_count = 0) => FullScrapeFor(INITIAL)

\* items were removed and the data is stale as well: the removal rule decides
C18_Witness ==
    /\ delta_call = DeltaCall(90, 100, 31, DEFAULT_BUFFER, DEFAULT_DAILY_FACTOR)
    /\ delta_result.reason = REMOVED
    /\ delta_result.items_to_fetch = 90

\* ---------------------------------------------------------------------- C19
\* C19: with online_count >= saved_count > 0 and at most 30 days, raw is
\* min(online_count, diff + buffer + daily_factor * days); more than 70% of
\* online_count gives a full scrape of online_count items, anything else an
\* incremental result of raw items.
C19_SeventyPercentRule ==
    LET c == delta_call
        raw == Min(c.online_count,
                   (c.online_count - c.saved_count) + c.buffer
                       + c.daily_factor * c.days_since_update)
    IN  (/\ DeltaReturned
         /\ c.online_count >= c.saved_count
         /\ c.saved_count > 0
         /\ c.days_since_update <= STALE_DAYS) =>
            IF 10 * raw > 7 * c.online_count
            THEN delta_result.is_full_scrape /\ delta_result.items_to_fetch = c.online_count
            ELSE ~delta_result.is_full_scrape /\ delta_result.items_to_fetch = raw

\* ---------------------------------------------------------------------- C20
\* C20: every result has new_items_estimate = online_count - saved_count.
C20_EstimateIsCountDifference ==
    DeltaReturned =>
        delta_result.new_items_estimate = delta_call.online_count - delta_call.saved_count

\* ---------------------------------------------------------------- C21
\* the tracker holds nothing to compare the online count of the source of
\* its last call with: no metadata, or metadata without a count for it
NoUsablePreviousData ==
    metadata.is_none \/ metadata.items[last_call.item_type] = None

\* C21: calculate_delta(source, online_count) returns a full scrape with
\* items_to_fetch = online_count whenever no metadata is loaded or the
\* metadata has no count for the source, and the call changes neither the
\* metadata in memory nor the metadata file.
C21_FullScrapeWithoutPreviousData ==
    /\ [](last_call.op = "calculate_delta" /\ NoUsablePreviousData
            => /\ last_call.returned.is_full_scrape
               /\ last_call.returned.items_to_fetch = last_call.count)
    /\ [][last_call'.op = "calculate_delta"
            => UNCHANGED <<metadata, metadata_file>>]_vars

\* metadata that knows 40 publications is asked about 50 press releases
C21_Witness ==
    /\ last_call.op = "calculate_delta"
    /\ last_call.item_type = "press_releases"
    /\ last_call.count = 50
    /\ ~metadata.is_none
    /\ metadata.items["press_releases"] = None
    /\ metadata.items["publications"] = 40
    /\ last_call.returned.is_full_scrape

\* ---------------------------------------------------------------- C22
\* C22: record_update sets the count in memory and leaves the metadata file
\* alone; the file changes only in save(); a load() sees the metadata of
\* the last save(), or what the file held before, or no metadata.
C22_PersistedOnlyBySave ==
    /\ [](last_call.op = "load" => metadata = on_disk)
    /\ [][metadata_file' # metadata_file => last_call'.op = "save"]_vars
    /\ [][last_call'.op = "record_update"
            => /\ metadata_file' = metadata_file
               /\ metadata'.items[last_call'.item_type] = last_call'.count]_vars

\* a new tracker has loaded a count that only record_update and save() can
\* have put into the file
C22_Witness ==
    /\ last_call.op = "load"
    /\ last_call.was_new
    /\ metadata.items["press_releases"] = 50
    /\ metadata.latest_updated = STALE_DAYS + 1

\* ---------------------------------------------------------------- C23
\* the sources of the run that have a routine, in the order asked for
RequestedOrder ==
    SelectSeq(IF sources_arg.is_none \/ sources_arg.list = <<>>
              THEN all_sources ELSE sources_arg.list,
              LAMBDA s : s \in refresh_methods)

\* the sources whose result in the RefreshResult has status st
WithStatus(st) ==
    {s \in refresh_methods : refresh_result.sources[s].status = st}

RunOver == rpc \in {"returned", "exited"}

\* C23: a source routine always ends inside the loop of refresh_all, with
\* SUCCESS or with FAILED and the exception message as its last error; the
\* loop goes on to the next source, and the run returns a result for every
\* source asked for, each SUCCESS or FAILED.
C23_SourceFailureIsContained ==
    /\ [][rpc = "routine" /\ rpc' # "routine"
            => /\ rpc' = "loop"
               /\ idx' = idx + 1
               /\ LET r == refresh_result'.sources[routine.source]
                  IN  \/ r.status = SUCCESS
                      \/ /\ r.status = FAILED
                         /\ r.errors # <<>>
                         /\ r.errors[Len(r.errors)] = EXCEPTION_MESSAGE]_vars
    /\ [](RunOver
            => /\ Elements(RequestedOrder) = Elements(refresh_result.keys)
               /\ Cardinality(WithStatus(SUCCESS)) + Cardinality(WithStatus(FAILED))
                      = Len(RequestedOrder))

\* three sources, the first of which raised: one FAILED, two SUCCESS
C23_Witness ==
    /\ rpc = "returned"
    /\ Len(to_refresh) = 3
    /\ refresh_result.sources[to_refresh[1]].status = FAILED
    /\ refresh_result.sources[to_refresh[1]].parse_failures = 0
    /\ Cardinality(WithStatus(SUCCESS)) = 2
    /\ Cardinality(WithStatus(FAILED)) = 1

C25_ParseFailureKeepsSourceGoing ==
    \A s \in refresh_methods :
        LET r == refresh_result.sources[s]
        IN  r.parse_failures > 0
                => /\ Len(r.errors) = r.parse_failures
                   /\ r.parser_calls = r.items_fetched
                   /\ r.status = SUCCESS

\* ---------------------------------------------------------------- C26
\* C26: the step in which refresh_all returns changes last_full_refresh
\* exactly when sources was None, last_incremental_refresh exactly when it
\* was a list, and no source_states entry of a source without a result.
C26_TimestampByKindOfRun ==
    [][rpc = "loop" /\ rpc' = "returned"
        => /\ refresh_state'.last_full_refresh # refresh_state.last_full_refresh
                  <=> sources_arg.is_none
           /\ refresh_state'.last_incremental_refresh
                  # refresh_state.last_incremental_refresh
                  <=> ~sources_arg.is_none
           /\ \A s \in refresh_methods \ Elements(to_refresh) :
                  refresh_state'.source_states[s] = refresh_state.source_states[s]]_vars

\* after a full refresh, a refresh of three sources has left the time of
\* the full refresh and the entry of publications as they were
C26_Witness ==
    /\ rpc = "returned"
    /\ sources_arg = SourcesList(<<"skolenkaten", "tillsyn", "kolada">>)
    /\ refresh_state.last_full_refresh = rclock - 1
    /\ refresh_state.last_incremental_refresh = rclock
    /\ refresh_state.source_states["publications"].last_refresh = rclock - 1
    /\ refresh_state.source_states["kolada"].last_refresh = rclock

\* ---------------------------------------------------------------- C27
\* entries in chronological order
Chronological(history) ==
    \A i \in 1..(Len(history) - 1) : history[i].timestamp < history[i + 1].timestamp

\* C27: the history holds at most 100 entries in chronological order, and
\* the step in which refresh_all returns appends the entry of this run to
\* the history it loaded, dropping the oldest entry when that makes 101.
C27_HistoryKeepsLastHundred ==
    /\ [](/\ Len(refresh_state.refresh_history) <= 100
          /\ Len(state_file.data.refresh_history) <= 100
          /\ Chronological(state_file.data.refresh_history))
    /\ [][rpc = "loop" /\ rpc' = "returned"
            => LET old == state_file.data.refresh_history
                   new == state_file'.data.refresh_history
                   dropped == Len(old) + 1 - Len(new)
               IN  /\ Len(new) = IF Len(old) < 100 THEN Len(old) + 1 ELSE 100
                   /\ new[Len(new)].timestamp = rclock
                   /\ new[Len(new)].success = refresh_result'.success
                   /\ \A i \in 1..(Len(new) - 1) : new[i] = old[i + dropped]]_vars

\* a run with a failed source on a full history: the oldest entry is gone
C27_Witness ==
    /\ rpc = "returned"
    /\ ~refresh_result.success
    /\ Len(state_file.data.refresh_history) = 100
    /\ state_file.data.refresh_history[1].timestamp = 2
    /\ state_file.data.refresh_history[100].timestamp = 101

\* ---------------------------------------------------------------- C28
\* the sources whose routine is under way or whose result was left RUNNING
Running ==
    {s \in refresh_methods :
        \/ routine.source = s /\ routine.status = RUNNING
        \/ refresh_result.sources[s].status = RUNNING}

Final == {SUCCESS, FAILED}

\* C28: the results of the run are those of the first sources asked for, in
\* that order and each SUCCESS or FAILED; the routine under way is that of
\* the next source and the only one RUNNING; a result appears for the source
\* whose routine was RUNNING in the step before; the run returns when every
\* source asked for has a result.
C28_OneSourceAtATimeInOrder ==
    /\ [](/\ Cardinality(Running) <= 1
          /\ Len(refresh_result.keys) <= Len(RequestedOrder)
          /\ refresh_result.keys = SubSeq(RequestedOrder, 1, Len(refresh_result.keys))
          /\ \A s \in Elements(refresh_result.keys) :
                 refresh_result.sources[s].status \in Final
          /\ rpc = "routine"
                 => /\ routine.status = RUNNING
                    /\ routine.source = RequestedOrder[Len(refresh_result.keys) + 1]
          /\ RunOver => refresh_result.keys = RequestedOrder)
    /\ [][\A s \in refresh_methods :
              refresh_result'.sources[s] # refresh_result.sources[s]
                  /\ refresh_result'.sources[s] # NoSourceResult
                  => Running = {s}]_vars

\* the second of three sources is RUNNING after the first has FAILED
C28_Witness ==
    /\ rpc = "routine"
    /\ sources_arg = SourcesList(<<"skolenkaten", "tillsyn", "kolada">>)
    /\ routine.source = "tillsyn"
    /\ refresh_result.keys = <<"skolenkaten">>
    /\ refresh_result.sources["skolenkaten"].status = FAILED

LeastRecent ==
    SelectSeq(accessed, LAMBDA k : k \in MemoryKeys(memory))[1]

\* C30: the memory tier holds at most max_size entries; a set of a key it
\* does not hold, when it is full, removes exactly the entry whose last
\* access is the oldest, and any other set removes nothing.
C30_EvictsLeastRecentlyAccessed ==
    /\ [](Len(memory) <= max_size)
    /\ [][cache_op'.op = "memory.set"
            => LET gone == MemoryKeys(memory) \ MemoryKeys(memory')
               IN  /\ cache_op'.key \in MemoryKeys(memory')
                   /\ IF cache_op'.key \notin MemoryKeys(memory) /\ Len(memory) = max_size
                      THEN gone = {LeastRecent}
                      ELSE gone = {}]_vars

\* size 3, filled with A, B, C; A read; D set: B is gone, A, C, D are held
\* and not expired
C30_Witness ==
    /\ max_size = 3
    /\ cache_op.op = "memory.set"
    /\ cache_op.key = "D"
    /\ [i \in 1..Len(memory) |-> memory[i].key] = <<"C", "A", "D">>
    /\ \A i \in 1..Len(memory) : ~is_expired(memory[i], cache_clock)

\* ---------------------------------------------------------------- C31
\* the entry of key that a tier holds and that has not expired at t
LiveInMemory(mem, key, t) ==
    key \in MemoryKeys(mem) /\ ~is_expired(mem[EntryOf(mem, key)], t)

LiveOnDisk(key, t) == disk[key] # NoEntry /\ ~is_expired(disk[key], t)

\* a step of the cache operation op: every operation records itself, and only
\* the passing of time leaves the record alone
CacheStep(op) == cache_op'.op = op /\ cache_clock' = cache_clock

\* C31: set(key, v) leaves the same entry, with the same expiry, in the
\* memory tier and on disk; get(key) returns the memory value when the memory
\* tier holds a live entry, otherwise the live disk value, which it puts into
\* the memory tier, otherwise absent; delete(key) leaves the key in neither
\* tier and clear() leaves both tiers empty, so that the next get is absent.
C31_TwoTierReadAndWrite ==
    /\ [][CacheStep("set")
            => /\ cache_op'.key \in MemoryKeys(memory')
               /\ memory'[EntryOf(memory', cache_op'.key)] = disk'[cache_op'.key]
               /\ disk'[cache_op'.key] # NoEntry]_vars
    /\ [][CacheStep("get")
            => LET k == cache_op'.key
               IN  IF LiveInMemory(memory, k, cache_clock)
                   THEN cache_op'.returned = memory[EntryOf(memory, k)].value
                   ELSE IF LiveOnDisk(k, cache_clock)
                   THEN /\ cache_op'.returned = disk[k].value
                        /\ LiveInMemory(memory', k, cache_clock)
                        /\ memory'[EntryOf(memory', k)].value = disk[k].value
                   ELSE cache_op'.returned = Absent]_vars
    /\ [][CacheStep("delete")
            => /\ cache_op'.key \notin MemoryKeys(memory')
               /\ disk'[cache_op'.key] = NoEntry]_vars
    /\ [][CacheStep("clear")
            => /\ memory' = <<>>
               /\ \A k \in LruKeys : disk'[k] = NoEntry]_vars

\* a get has returned the value from the disk and holds it in the memory tier
\* again: the tier has room for both keys, holds only this one, and the other
\* key is still on disk, so the memory tier was emptied (cleared, or a new
\* instance over the same directory) after both were set
C31_Witness ==
    /\ cache_op.op = "get"
    /\ cache_op.returned = "v2"
    /\ written[cache_op.key] # NoEntry
    /\ max_size = 2
    /\ Len(memory) = 1
    /\ \E k \in CacheKeys : k # cache_op.key /\ disk[k] # NoEntry

\* ---------------------------------------------------------------- C32
\* the fetch_page call is over
FetchOver == fpc = "returned"

\* the call went to the network and its last request did not bring a page
\* (or none could be sent)
RequestFailed ==
    /\ fetch.tokens > 0
    /\ \/ fetch.outcomes = <<>>
       \/ fetch.outcomes[Len(fetch.outcomes)].status # 200

\* C32: no exception leaves fetch_page; a call whose request ended in an
\* error status, in a timeout on every attempt or in another exception
\* returned None and wrote nothing into the cache; the cache changes only by
\* the non-empty body of a 200 answer, which becomes the entry of that url.
C32_FetchPageNeverRaises ==
    /\ [](FetchOver =>
            /\ fetch.raised = NoException
            /\ RequestFailed => fetch.returned = Absent /\ ~fetch.cache_written)
    /\ [][content_cache' # content_cache
            => /\ fpc' = "returned"
               /\ fetch'.outcomes[Len(fetch'.outcomes)] = Answer(200, HTML)
               /\ fetch'.returned = HTML
               /\ content_cache' = [content_cache EXCEPT ![fetch.url] = HTML]]_vars

\* a call with caching whose every attempt timed out has returned None, and
\* the cache has no entry for its url
C32_Witness ==
    /\ FetchOver
    /\ fetch.use_cache /\ scraper.cache
    /\ scraper.max_attempts = MAX_RETRIES
    /\ fetch.outcomes = [i \in 1..MAX_RETRIES |-> Throws("TimeoutException")]
    /\ fetch.returned = Absent
    /\ content_cache[fetch.url] = Absent

\* ---------------------------------------------------------------- C33
\* C33: at any time the requests sent to a host are at most the tokens
\* debited from the bucket of that host.
C33_EveryRequestPaidByAToken ==
    \A h \in FetchHosts : sent[h] <= debited[h]

\* ---------------------------------------------------------------- C34
\* every request of the call was answered with a retryable status
OnlyRetryableStatuses ==
    /\ fetch.outcomes # <<>>
    /\ \A i \in 1..Len(fetch.outcomes) :
          /\ fetch.outcomes[i].kind = "response"
          /\ is_retryable_response(fetch.outcomes[i])

\* C34: a call whose url answered every request with a retryable status was
\* requested max_attempts times, with a sleep between two attempts, and
\* returned None.
C34_RetryableStatusIsRetried ==
    FetchOver /\ OnlyRetryableStatuses
        => /\ Len(fetch.outcomes) = scraper.max_attempts
           /\ fetch.sleeps = scraper.max_attempts - 1
           /\ fetch.returned = Absent

\* ---------------------------------------------------------------- C35
\* C35: the breaker is asked only at the entry of a wrapped call: a call is
\* refused only before its first attempt, and the step from a backoff sleep
\* to the next attempt invokes op and leaves the breaker as it is, whatever
\* its state and however long ago its last failure.
C35_BreakerAskedOnlyAtEntry ==
    /\ [](\A c \in callers :
            result[c] = CircuitBreakerOpenError => invocations[c] = 0 /\ hist[c] = <<>>)
    /\ [][\A c \in callers :
            (pc[c] = "sleeping" /\ pc'[c] # "sleeping")
                => /\ pc'[c] = "running"
                   /\ invocations'[c] = invocations[c] + 1
                   /\ attempt'[c] = attempt[c] + 1
                   /\ cb' = cb]_vars

\* op is being awaited in a later attempt of a call whose own failures opened
\* the breaker, at a time at which can_execute() would refuse
C35_Witness ==
    \E c \in callers :
        /\ attached
        /\ pc[c] = "running"
        /\ attempt[c] > 0
        /\ cb.state = OPEN
        /\ ~can_execute(cb, now).ret
        /\ recorded[c].failures = cb.config.failure_threshold
        /\ consecutive_failures = recorded[c].failures

\* ---------------------------------------------------------------- C36
\* C36: a fetch_page call that finds a non-empty value in the cache (the
\* scraper has a cache, use_cache is true) returns that value at once: no
\* token is debited and no request sent for it; any other call goes to the
\* rate limiter; the cache is read before any token is debited; a call with
\* use_cache false neither reads nor writes the cache.
C36_CacheHitCostsNothing ==
    /\ [][fetches' # fetches
            => LET hit == /\ fetch'.use_cache /\ scraper.cache
                          /\ TruthyText(content_cache[fetch'.url])
               IN  /\ hit => /\ fpc' = "returned"
                             /\ fetch'.returned = content_cache[fetch'.url]
                             /\ debited' = debited /\ sent' = sent
                   /\ ~hit => fpc' = "limit"
                   /\ fetch'.cache_read = (fetch'.use_cache /\ scraper.cache)
                   /\ fetch'.tokens = 0]_vars
    /\ [][fetch'.cache_read # fetch.cache_read => fetches' # fetches]_vars
    /\ [](FetchOver /\ fetch.tokens = 0 => fetch.outcomes = <<>> /\ fetch.cache_read)
    /\ [](~fetch.use_cache => ~fetch.cache_read /\ ~fetch.cache_written)
    /\ [][~fetch'.use_cache => content_cache' = content_cache]_vars

\* the second call for a url has returned the page that the first call
\* fetched and cached: one token and one request in all
C36_Witness ==
    /\ FetchOver
    /\ fetches = 2
    /\ fetch.returned = HTML
    /\ fetch.tokens = 0
    /\ fetch.cache_read
    /\ debited[extract_domain(fetch.url)] = 1
    /\ sent[extract_domain(fetch.url)] = 1

\* ---------------------------------------------------------------- C37
\* C37: a CLOSED breaker has counted fewer failures than failure_threshold,
\* an OPEN breaker has a last_failure_time, and a record_failure() on an OPEN
\* breaker leaves it OPEN with last_failure_time at the time of that call.
C37_BreakerStateInvariants ==
    /\ [](cb.config.failure_threshold >= 1)
    /\ [](cb.state = CLOSED => cb.failure_count < cb.config.failure_threshold)
    /\ [](cb.state = OPEN => cb.last_failure_time # None)
    /\ [][(cb.state = OPEN /\ FailureRecorded)
            => /\ cb'.state = OPEN
               /\ cb'.failure_count = cb.failure_count + 1
               /\ cb'.last_failure_time = now]_vars

\* no time has passed since the construction, so the breaker never left
\* OPEN, and it has counted one failure more than it took to open it: the
\* last record_failure() found it OPEN
C37_Witness ==
    /\ now = 1
    /\ cb.state = OPEN
    /\ cb.failure_count = cb.config.failure_threshold + 1
    /\ cb.last_failure_time = now

\* ---------------------------------------------------------------- C38
\* C38: every result has 0 <= items_to_fetch <= online_count; a full scrape
\* fetches online_count items; a result that is no full scrape was computed
\* from saved_count > 0, at most 30 days and online_count >= saved_count, and
\* fetches at most 70% of online_count.
C38_ResultWithinBounds ==
    LET c == delta_call
        r == delta_result
    IN  DeltaReturned =>
            /\ 0 <= r.items_to_fetch
            /\ r.items_to_fetch <= c.online_count
            /\ r.is_full_scrape => r.items_to_fetch = c.online_count
            /\ ~r.is_full_scrape =>
                    /\ c.saved_count > 0
                    /\ c.days_since_update <= STALE_DAYS
                    /\ c.online_count >= c.saved_count
                    /\ 10 * r.items_to_fetch <= 7 * c.online_count

\* an incremental result of exactly 70% of the items online
C38_Witness ==
    /\ delta_call = DeltaCall(100, 88, 24, DEFAULT_BUFFER, DEFAULT_DAILY_FACTOR)
    /\ ~delta_result.is_full_scrape
    /\ delta_result.items_to_fetch = 70

\* ---------------------------------------------------------------- C40
\* a step of record_update: every method records itself, and only the
\* passing of the days leaves the record alone
RecordsUpdate == last_call'.op = "record_update" /\ today' = today

\* C40: record_update(s, n) sets items[s] to n and latest_updated to now and
\* leaves the count of every other source, held or not, and the file as
\* they were; a calculate_delta made right after it, for any source and any
\* online count, computes days_since_update = 0 and so never gives the
\* stale-data reason, however old the count of that source is.
C40_RecordUpdateFrame ==
    /\ [][RecordsUpdate
            => /\ metadata'.items[last_call'.item_type] = last_call'.count
               /\ metadata'.latest_updated = today
               /\ ~metadata'.is_none
               /\ \A t \in ItemTypes \ {last_call'.item_type} :
                      metadata'.items[t] = metadata.items[t]
               /\ metadata'.last_scraped_urls = metadata.last_scraped_urls
               /\ metadata_file' = metadata_file
               /\ \A t \in ItemTypes, n \in CountsDrawn :
                      LET delta == calculate_delta(metadata', t, n, today')
                      IN  delta.days_since_update = 0 /\ delta.reason # STALE]_vars
    /\ [][(last_call.op = "record_update" /\ last_call'.op = "calculate_delta"
                /\ metadata.latest_updated = today)
            => last_call'.returned.days_since_update = 0]_vars

\* press_releases were counted and saved on day 0; on day 31 publications
\* were recorded, and the calculate_delta for press_releases that followed
\* is incremental, with days_since_update 0
C40_Witness ==
    /\ today = STALE_DAYS + 1
    /\ on_disk.latest_updated = 0
    /\ on_disk.items["press_releases"] = 40
    /\ metadata.items["press_releases"] = 40
    /\ metadata.items["publications"] = 50
    /\ metadata.latest_updated = today
    /\ last_call.op = "calculate_delta"
    /\ last_call.item_type = "press_releases"
    /\ last_call.count = 50
    /\ last_call.returned.days_since_update = 0
    /\ ~last_call.returned.is_full_scrape

\* the step in which scrape_publications returns
ScrapeReturns == spc # "done" /\ spc' = "done"

====
